---- MODULE Spec2Model ----
(***************************************************************************)
(* Model of python/serology_plots.py: the balanced-span scanner            *)
(* (_extract_balanced), the call-argument locator                          *)
(* (_extract_plotly_call_args) and the document loader                     *)
(* (load_plot_json_from_html).                                             *)
(*                                                                         *)
(* A text is a sequence of one-character strings.  Indices are the Python  *)
(* ones (0-based): At(t, k) is t[k] and Slice(t, a, b) is t[a:b].          *)
(***************************************************************************)
EXTENDS Integers, Sequences, FiniteSets, TLC

VARIABLES
    mode,           \* which component the behaviour exercises
    pc,             \* "ready" before the call, "done" after it
    s,              \* _extract_balanced: the text
    open_char,      \* _extract_balanced: the opening delimiter
    close_char,     \* _extract_balanced: the closing delimiter
    start_index,    \* _extract_balanced: the start index
    scan_result,    \* _extract_balanced: what the call returned or raised
    parts,          \* the pieces the document was written from, in order
    script_text,    \* _extract_plotly_call_args: the text
    locate_result,  \* _extract_plotly_call_args: what the call returned or raised
    files,          \* the file system: the text at each path, if any
    cache,          \* lru_cache of load_plot_json_from_html, oldest entry first
    load_path,      \* load_plot_json_from_html: the path of the last call
    load_read,      \* the text the last call read from the file, if it read one
    load_result,    \* load_plot_json_from_html: what the last call returned or raised
    history,        \* per path followed: the outcomes of its last call and of
                    \* the one before, and the other paths called since
    called,         \* the last call of a function of the catalog: name, argument
    call_result     \* what that call returned or raised

vars == <<mode, pc, s, open_char, close_char, start_index, scan_result,
          parts, script_text, locate_result,
          files, cache, load_path, load_read, load_result, history,
          called, call_result>>

load_vars == <<files, cache, load_path, load_read, load_result, history>>

scan_vars == <<s, open_char, close_char, start_index, scan_result>>

locate_vars == <<parts, script_text, locate_result>>

catalog_vars == <<called, call_result>>

----------------------------------------------------------------------------
(* Bounds of the model. *)

\* longest text the scanner is run on exhaustively
MaxLen == 5

\* longest argument text the locator is run on exhaustively
MaxBody == 6

----------------------------------------------------------------------------
(* Python strings. *)

DQ == "\""
SQ == "'"
BS == "\\"

At(t, k) == t[k + 1]

Slice(t, a, b) == SubSeq(t, a + 1, IF b < Len(t) THEN b ELSE Len(t))

\* every text over alphabet A of length at most n
TextsUpTo(A, n) == UNION {[1..k -> A] : k \in 0..n}

----------------------------------------------------------------------------
(* Outcomes of a call: a returned value or a raised exception. *)

\* no function of the catalog was called yet
NoCall == [op |-> "", arg |-> <<>>, loads |-> <<>>]

NoResult == [exc |-> "none", msg |-> "", value |-> <<>>]

Return(v) == [exc |-> "", msg |-> "", value |-> v]

Raise(e, m) == [exc |-> e, msg |-> m, value |-> <<>>]

\* the messages of the ValueErrors the scanner raises
InvalidStart == "start_index does not point to the expected opening character"
UnbalancedSpan == "Unbalanced brackets while parsing"

----------------------------------------------------------------------------
(* _extract_balanced *)

\* the locals of the loop when it is entered
loop_init(start) ==
    [i |-> start, depth |-> 0, in_string |-> FALSE, string_quote |-> "",
     escape |-> FALSE, returned |-> FALSE]

\* mutant of in_string_branch: a quote of either style ends the literal
in_string_branch_any_quote(ch, st) ==
    IF st.escape THEN [st EXCEPT !.escape = FALSE, !.i = @ + 1]
    ELSE IF ch = BS THEN [st EXCEPT !.escape = TRUE, !.i = @ + 1]
    ELSE IF ch \in {SQ, DQ} THEN [st EXCEPT !.in_string = FALSE, !.i = @ + 1]
    ELSE [st EXCEPT !.i = @ + 1]

\* mutant of in_string_branch: the backslash is an ordinary character
in_string_branch_noescape(ch, st) ==
    IF ch = st.string_quote THEN [st EXCEPT !.in_string = FALSE, !.i = @ + 1]
    ELSE [st EXCEPT !.i = @ + 1]

\* the branch of the loop body taken inside a string literal
in_string_branch(ch, st) ==
    IF st.escape THEN [st EXCEPT !.escape = FALSE, !.i = @ + 1]
    ELSE IF ch = BS THEN [st EXCEPT !.escape = TRUE, !.i = @ + 1]
    ELSE IF ch = st.string_quote THEN [st EXCEPT !.in_string = FALSE, !.i = @ + 1]
    ELSE [st EXCEPT !.i = @ + 1]

\* mutant of out_of_string_branch: only the double quote opens a literal
out_of_string_branch_dq_only(ch, open, close, st) ==
    IF ch = DQ
    THEN [st EXCEPT !.in_string = TRUE, !.string_quote = ch, !.i = @ + 1]
    ELSE IF ch = open THEN [st EXCEPT !.depth = @ + 1, !.i = @ + 1]
    ELSE IF ch = close
    THEN IF st.depth - 1 = 0
         THEN [st EXCEPT !.depth = @ - 1, !.returned = TRUE]
         ELSE [st EXCEPT !.depth = @ - 1, !.i = @ + 1]
    ELSE [st EXCEPT !.i = @ + 1]

\* the branch of the loop body taken outside string literals
out_of_string_branch(ch, open, close, st) ==
    IF ch \in {SQ, DQ}
    THEN [st EXCEPT !.in_string = TRUE, !.string_quote = ch, !.i = @ + 1]
    ELSE IF ch = open THEN [st EXCEPT !.depth = @ + 1, !.i = @ + 1]
    ELSE IF ch = close
    THEN IF st.depth - 1 = 0
         THEN [st EXCEPT !.depth = @ - 1, !.returned = TRUE]
         ELSE [st EXCEPT !.depth = @ - 1, !.i = @ + 1]
    ELSE [st EXCEPT !.i = @ + 1]

\* mutant of loop_body: string literals are not told apart
loop_body_ignore_strings(t, open, close, st) ==
    out_of_string_branch(At(t, st.i), open, close, [st EXCEPT !.in_string = FALSE])

\* one iteration of the while loop on the locals st
loop_body(t, open, close, st) ==
    IF st.in_string
    THEN in_string_branch(At(t, st.i), st)
    ELSE out_of_string_branch(At(t, st.i), open, close, st)

\* the while loop from the locals st: the locals when the loop is left
RECURSIVE while_loop(_, _, _, _)
while_loop(t, open, close, st) ==
    IF st.returned \/ ~(st.i < Len(t)) THEN st
    ELSE while_loop(t, open, close, loop_body(t, open, close, st))

\* mutant of _extract_balanced: the text read so far is returned at its end
_extract_balanced_partial(t, open, close, start) ==
    IF ~(start < Len(t)) THEN Raise("IndexError", "string index out of range")
    ELSE IF At(t, start) # open THEN Raise("ValueError", InvalidStart)
    ELSE LET st == while_loop(t, open, close, loop_init(start))
         IN  IF st.returned
             THEN Return(<<Slice(t, start, st.i + 1), st.i + 1>>)
             ELSE Return(<<Slice(t, start, Len(t)), Len(t)>>)

\* mutant of _extract_balanced: the start index is not checked
_extract_balanced_nocheck(t, open, close, start) ==
    IF ~(start < Len(t)) THEN Raise("IndexError", "string index out of range")
    ELSE LET st == while_loop(t, open, close, loop_init(start))
         IN  IF st.returned
             THEN Return(<<Slice(t, start, st.i + 1), st.i + 1>>)
             ELSE Raise("ValueError", UnbalancedSpan)

_extract_balanced(t, open, close, start) ==
    IF ~(start < Len(t)) THEN Raise("IndexError", "string index out of range")
    ELSE IF At(t, start) # open THEN Raise("ValueError", InvalidStart)
    ELSE LET st == while_loop(t, open, close, loop_init(start))
         IN  IF st.returned
             THEN Return(<<Slice(t, start, st.i + 1), st.i + 1>>)
             ELSE Raise("ValueError", UnbalancedSpan)

\* the delimiter pairs the callers pass
Pairs == {<<"[", "]">>, <<"{", "}">>, <<"(", ")">>}

----------------------------------------------------------------------------
(* _extract_plotly_call_args *)

\* the characters \s matches and str.strip() removes
Whitespace == {" ", "\t", "\n", "\r", "\f"}

CallName == <<"P", "l", "o", "t", "l", "y", ".", "n", "e", "w", "P", "l", "o", "t">>

\* Optional[str]
None == <<>>
Some(x) == <<x>>

\* the messages of the ValueErrors the locator raises
CallNotFound == "No Plotly.newPlot(...) call found"
MalformedCall == "Malformed Plotly.newPlot call (no comma after first argument)"
NoDataArray == "Could not locate data array '[' after first argument"
NoLayoutObject == "Could not locate layout object '{' after data"

\* str.find(ch, from): the lowest index >= from that holds ch, or -1
find(t, ch, from) ==
    LET hits == {k \in from..(Len(t) - 1) : At(t, k) = ch}
    IN  IF hits = {} THEN -1 ELSE CHOOSE k \in hits : \A k2 \in hits : k <= k2

\* the index of the first character from index k on that is no whitespace
RECURSIVE skip_whitespace(_, _)
skip_whitespace(t, k) ==
    IF k < Len(t) /\ At(t, k) \in Whitespace THEN skip_whitespace(t, k + 1) ELSE k

\* the end of a match of Plotly\.newPlot\s*\( that starts at index p, or -1
match_at(t, p) ==
    IF p + Len(CallName) <= Len(t) /\ Slice(t, p, p + Len(CallName)) = CallName
    THEN LET q == skip_whitespace(t, p + Len(CallName))
         IN  IF q < Len(t) /\ At(t, q) = "(" THEN q + 1 ELSE -1
    ELSE -1

\* mutant of re_search_end: the rightmost match is taken
re_search_end_last(t) ==
    LET starts == {p \in 0..(Len(t) - 1) : match_at(t, p) # -1}
    IN  IF starts = {} THEN -1
        ELSE match_at(t, CHOOSE p \in starts : \A p2 \in starts : p >= p2)

\* re.search(r"Plotly\.newPlot\s*\(", t): m.end() of the leftmost match, or -1
re_search_end(t) ==
    LET starts == {p \in 0..(Len(t) - 1) : match_at(t, p) # -1}
    IN  IF starts = {} THEN -1
        ELSE match_at(t, CHOOSE p \in starts : \A p2 \in starts : p <= p2)

\* str.strip()
RECURSIVE strip(_)
strip(t) ==
    IF t = <<>> THEN t
    ELSE IF Head(t) \in Whitespace THEN strip(Tail(t))
    ELSE IF t[Len(t)] \in Whitespace THEN strip(SubSeq(t, 1, Len(t) - 1))
    ELSE t

\* the locals of _extract_plotly_call_args that hold indices; -1: not assigned
NoLocals ==
    [idx |-> -1, first_comma |-> -1, data_start |-> -1, after_data |-> -1,
     layout_start |-> -1, after_layout |-> -1, paren_open |-> -1,
     call_end |-> -1, brace_pos |-> -1]

\* an outcome together with the locals assigned when it was produced
WithLocals(r, l) == [exc |-> r.exc, msg |-> r.msg, value |-> r.value, locals |-> l]

\* mutant of config_and_return: any brace after the layout starts the config
config_and_return_any_brace(t, div_arg, data_str, layout_str, l0) ==
    LET paren_open == find(t, "(", l0.idx - 1)
        call == _extract_balanced(t, "(", ")", paren_open)
        l1 == [l0 EXCEPT !.paren_open = paren_open]
    IN  IF call.exc # "" THEN WithLocals(call, l1)
        ELSE
    LET call_end == call.value[2]
        brace_pos == find(t, "{", l0.after_layout)
        l2 == [l1 EXCEPT !.call_end = call_end, !.brace_pos = brace_pos]
    IN  IF brace_pos # -1
        THEN LET config == _extract_balanced(t, "{", "}", brace_pos)
             IN  IF config.exc # "" THEN WithLocals(config, l2)
                 ELSE WithLocals(Return(<<div_arg, data_str, layout_str,
                                          Some(config.value[1])>>), l2)
        ELSE WithLocals(Return(<<div_arg, data_str, layout_str, None>>), l2)

\* mutant of config_and_return: a call whose parenthesis never closes is
\* taken to end with the text
config_and_return_repair(t, div_arg, data_str, layout_str, l0) ==
    LET paren_open == find(t, "(", l0.idx - 1)
        call == _extract_balanced(t, "(", ")", paren_open)
        call_end == IF call.exc # "" THEN Len(t) ELSE call.value[2]
        brace_pos == find(t, "{", l0.after_layout)
        l2 == [l0 EXCEPT !.paren_open = paren_open, !.call_end = call_end,
                         !.brace_pos = brace_pos]
    IN  IF brace_pos # -1 /\ brace_pos < call_end
        THEN LET config == _extract_balanced(t, "{", "}", brace_pos)
             IN  IF config.exc # "" THEN WithLocals(config, l2)
                 ELSE WithLocals(Return(<<div_arg, data_str, layout_str,
                                          Some(config.value[1])>>), l2)
        ELSE WithLocals(Return(<<div_arg, data_str, layout_str, None>>), l2)

\* lines 140-150: the optional config object and the return
config_and_return(t, div_arg, data_str, layout_str, l0) ==
    LET paren_open == find(t, "(", l0.idx - 1)
        call == _extract_balanced(t, "(", ")", paren_open)
        l1 == [l0 EXCEPT !.paren_open = paren_open]
    IN  IF call.exc # "" THEN WithLocals(call, l1)
        ELSE
    LET call_end == call.value[2]
        brace_pos == find(t, "{", l0.after_layout)
        l2 == [l1 EXCEPT !.call_end = call_end, !.brace_pos = brace_pos]
    IN  IF brace_pos # -1 /\ brace_pos < call_end
        THEN LET config == _extract_balanced(t, "{", "}", brace_pos)
             IN  IF config.exc # "" THEN WithLocals(config, l2)
                 ELSE WithLocals(Return(<<div_arg, data_str, layout_str,
                                          Some(config.value[1])>>), l2)
        ELSE WithLocals(Return(<<div_arg, data_str, layout_str, None>>), l2)

\* lines 128-138: the data array and the layout object
data_and_layout(t, div_arg, l0) ==
    LET data_start == find(t, "[", l0.first_comma + 1)
        l1 == [l0 EXCEPT !.data_start = data_start]
    IN  IF data_start = -1 THEN WithLocals(Raise("ValueError", NoDataArray), l1)
        ELSE
    LET data == _extract_balanced(t, "[", "]", data_start)
    IN  IF data.exc # "" THEN WithLocals(data, l1)
        ELSE
    LET after_data == data.value[2]
        layout_start == find(t, "{", after_data)
        l2 == [l1 EXCEPT !.after_data = after_data, !.layout_start = layout_start]
    IN  IF layout_start = -1 THEN WithLocals(Raise("ValueError", NoLayoutObject), l2)
        ELSE
    LET layout == _extract_balanced(t, "{", "}", layout_start)
    IN  IF layout.exc # "" THEN WithLocals(layout, l2)
        ELSE config_and_return(t, div_arg, data.value[1], layout.value[1],
                               [l2 EXCEPT !.after_layout = layout.value[2]])

\* mutant of _extract_plotly_call_args: a missing comma is not reported
_extract_plotly_call_args_no_comma_check(t) ==
    LET idx == re_search_end(t)
    IN  IF idx = -1 THEN WithLocals(Raise("ValueError", CallNotFound), NoLocals)
        ELSE
    LET first_comma == find(t, ",", idx)
        l == [NoLocals EXCEPT !.idx = idx, !.first_comma = first_comma]
    IN  data_and_layout(t, strip(Slice(t, idx, IF first_comma = -1 THEN Len(t) - 1
                                                ELSE first_comma)), l)

_extract_plotly_call_args(t) ==
    LET idx == re_search_end(t)
    IN  IF idx = -1 THEN WithLocals(Raise("ValueError", CallNotFound), NoLocals)
        ELSE
    LET first_comma == find(t, ",", idx)
        l == [NoLocals EXCEPT !.idx = idx, !.first_comma = first_comma]
    IN  IF first_comma = -1 THEN WithLocals(Raise("ValueError", MalformedCall), l)
        ELSE data_and_layout(t, strip(Slice(t, idx, first_comma)), l)

----------------------------------------------------------------------------
(* json.loads, as _parse_json_like uses it.  A decoded value is a record    *)
(* [type, items]: type is the Python type ("dict", "list", "str", "int",    *)
(* "float", "bool", "NoneType"); items are the pairs [key, value] of a      *)
(* dict, the values of a list, the characters of a str and the characters   *)
(* of the lexeme of the other types.                                        *)

JValue(type, items) == [type |-> type, items |-> items]

\* the outcome of a sub-parser: a value and the index after it, or a failure
Parsed(v, e) == [ok |-> TRUE, val |-> v, end |-> e]
ParseError == [ok |-> FALSE, val |-> JValue("NoneType", <<>>), end |-> -1]

JsonWhitespace == {" ", "\t", "\n", "\r"}
Digits == {"0", "1", "2", "3", "4", "5", "6", "7", "8", "9"}
HexDigits == Digits \cup {"a", "b", "c", "d", "e", "f", "A", "B", "C", "D", "E", "F"}

\* the characters below U+0020 that a TLA+ string can hold
ControlChars == {"\t", "\n", "\r", "\f"}

\* str[a:a + 1]: the character at index a, or the empty string at the end
CharAt(t, a) == IF a < Len(t) THEN At(t, a) ELSE ""

\* WHITESPACE.match(s, k).end()
RECURSIVE json_skip(_, _)
json_skip(t, k) ==
    IF CharAt(t, k) \in JsonWhitespace THEN json_skip(t, k + 1) ELSE k

\* the end of the run of digits that starts at index k
RECURSIVE digits_end(_, _)
digits_end(t, k) == IF CharAt(t, k) \in Digits THEN digits_end(t, k + 1) ELSE k

\* NUMBER_RE, the integer part at index a: its end, or -1
number_int_end(t, a) ==
    IF CharAt(t, a) = "0" THEN a + 1
    ELSE IF CharAt(t, a) \in Digits THEN digits_end(t, a)
    ELSE -1

\* NUMBER_RE, the optional group that starts at index b and needs digits
\* from index d on, which end at index x: the end of the group
number_group_end(b, d, x) == IF x > d THEN x ELSE b

\* NUMBER_RE, the optional fraction at index b: its end
number_frac_end(t, b) ==
    IF CharAt(t, b) = "." THEN number_group_end(b, b + 1, digits_end(t, b + 1))
    ELSE b

\* NUMBER_RE, the optional exponent at index c, its digits expected at d
number_exp_digits(t, c, d) == number_group_end(c, d, digits_end(t, d))

\* NUMBER_RE, the optional exponent at index c: its end
number_exp_end(t, c) ==
    IF CharAt(t, c) \in {"e", "E"}
    THEN number_exp_digits(t, c, IF CharAt(t, c + 1) \in {"-", "+"} THEN c + 2 ELSE c + 1)
    ELSE c

\* NUMBER_RE after the integer part, which ends at b
number_tail(t, b) ==
    IF b = -1 THEN <<-1, -1>> ELSE <<b, number_exp_end(t, number_frac_end(t, b))>>

\* NUMBER_RE.match(s, k): <<end of the integer part, end of the match>>, or
\* <<-1, -1>> when there is no match
number_match(t, k) ==
    number_tail(t, number_int_end(t, IF CharAt(t, k) = "-" THEN k + 1 ELSE k))

\* BACKSLASH: the character an escape stands for ("\\b" stands for U+0008)
Backslash(esc) ==
    CASE esc = DQ -> DQ
      [] esc = BS -> BS
      [] esc = "/" -> "/"
      [] esc = "b" -> "\\b"
      [] esc = "f" -> "\f"
      [] esc = "n" -> "\n"
      [] esc = "r" -> "\r"
      [] esc = "t" -> "\t"

\* py_scanstring(s, k) in strict mode, acc the characters decoded so far; a
\* \uXXXX escape is decoded to the one character written "\\uXXXX"
RECURSIVE scanstring(_, _, _)
scanstring(t, k, acc) ==
    LET ch == CharAt(t, k)
    IN  IF ch = "" THEN ParseError
        ELSE IF ch = DQ THEN Parsed(JValue("str", acc), k + 1)
        ELSE IF ch \in ControlChars THEN ParseError
        ELSE IF ch # BS THEN scanstring(t, k + 1, Append(acc, ch))
        ELSE LET esc == CharAt(t, k + 1)
             IN  IF esc \in {DQ, BS, "/", "b", "f", "n", "r", "t"}
                 THEN scanstring(t, k + 2, Append(acc, Backslash(esc)))
                 ELSE IF esc = "u" /\ k + 6 <= Len(t)
                         /\ \A j \in (k + 2)..(k + 5) : At(t, j) \in HexDigits
                 THEN scanstring(t, k + 6,
                         Append(acc, "\\u" \o At(t, k + 2) \o At(t, k + 3)
                                     \o At(t, k + 4) \o At(t, k + 5)))
                 ELSE ParseError

\* dict(pairs) extended by one pair: a key already there gets the new value
dict_with(pairs, key, val) ==
    IF \E n \in 1..Len(pairs) : pairs[n].key = key
    THEN [n \in 1..Len(pairs) |->
            IF pairs[n].key = key THEN [key |-> key, value |-> val] ELSE pairs[n]]
    ELSE Append(pairs, [key |-> key, value |-> val])

RECURSIVE scan_once(_, _)
RECURSIVE JSONArray(_, _, _)
RECURSIVE JSONObject(_, _, _)

\* JSONArray after a value and the whitespace behind it, which ends at e
array_next(t, values, e) ==
    IF CharAt(t, e) = "]" THEN Parsed(JValue("list", values), e + 1)
    ELSE IF CharAt(t, e) = "," THEN JSONArray(t, json_skip(t, e + 1), values)
    ELSE ParseError

\* JSONArray after scan_once gave v
array_value(t, values, v) ==
    IF ~v.ok THEN ParseError
    ELSE array_next(t, Append(values, v.val), json_skip(t, v.end))

\* the loop of JSONArray: k is the index at which the next value is expected
JSONArray(t, k, values) == array_value(t, values, scan_once(t, k))

\* JSONObject after a comma and the whitespace behind it, which ends at q
object_next_key(t, pairs, q) ==
    IF CharAt(t, q) = DQ THEN JSONObject(t, q + 1, pairs) ELSE ParseError

\* JSONObject after a value and the whitespace behind it, which ends at e
object_next(t, pairs, e) ==
    IF CharAt(t, e) = "}" THEN Parsed(JValue("dict", pairs), e + 1)
    ELSE IF CharAt(t, e) = "," THEN object_next_key(t, pairs, json_skip(t, e + 1))
    ELSE ParseError

\* JSONObject after scan_once gave v for the key
object_value(t, pairs, key, v) ==
    IF ~v.ok THEN ParseError
    ELSE object_next(t, dict_with(pairs, key, v.val), json_skip(t, v.end))

\* JSONObject after a key and the whitespace behind it, which ends at colon
object_colon(t, pairs, key, colon) ==
    IF CharAt(t, colon) # ":" THEN ParseError
    ELSE object_value(t, pairs, key, scan_once(t, json_skip(t, colon + 1)))

\* JSONObject after scanstring gave key
object_key(t, pairs, key) ==
    IF ~key.ok THEN ParseError
    ELSE object_colon(t, pairs, key.val.items, json_skip(t, key.end))

\* the loop of JSONObject: k is the index after the opening quote of a key
JSONObject(t, k, pairs) == object_key(t, pairs, scanstring(t, k, <<>>))

\* scan_once on "{" and the whitespace behind it, which ends at a
object_start(t, a) ==
    IF CharAt(t, a) = "}" THEN Parsed(JValue("dict", <<>>), a + 1)
    ELSE IF CharAt(t, a) = DQ THEN JSONObject(t, a + 1, <<>>)
    ELSE ParseError

\* scan_once on "[" and the whitespace behind it, which ends at a
array_start(t, a) ==
    IF CharAt(t, a) = "]" THEN Parsed(JValue("list", <<>>), a + 1)
    ELSE JSONArray(t, a, <<>>)

\* a constant of the scanner, when the text holds word at index k
json_constant(t, k, word, type) ==
    IF Slice(t, k, k + Len(word)) = word
    THEN Parsed(JValue(type, word), k + Len(word))
    ELSE ParseError

\* scan_once on a character that starts no string, object, array or name:
\* a number, when num is a match, or NaN, Infinity, -Infinity
number_or_constant(t, k, num) ==
    IF num[1] # -1
    THEN Parsed(JValue(IF num[2] = num[1] THEN "int" ELSE "float",
                       Slice(t, k, num[2])), num[2])
    ELSE IF CharAt(t, k) = "N" THEN json_constant(t, k, <<"N", "a", "N">>, "float")
    ELSE IF CharAt(t, k) = "I"
    THEN json_constant(t, k, <<"I", "n", "f", "i", "n", "i", "t", "y">>, "float")
    ELSE IF CharAt(t, k) = "-"
    THEN json_constant(t, k, <<"-", "I", "n", "f", "i", "n", "i", "t", "y">>, "float")
    ELSE ParseError

\* scan_once(s, k): the value that starts at index k
scan_once(t, k) ==
    IF CharAt(t, k) = DQ THEN scanstring(t, k + 1, <<>>)
    ELSE IF CharAt(t, k) = "{" THEN object_start(t, json_skip(t, k + 1))
    ELSE IF CharAt(t, k) = "[" THEN array_start(t, json_skip(t, k + 1))
    ELSE IF CharAt(t, k) = "n" /\ Slice(t, k, k + 4) = <<"n", "u", "l", "l">>
    THEN json_constant(t, k, <<"n", "u", "l", "l">>, "NoneType")
    ELSE IF CharAt(t, k) = "t" /\ Slice(t, k, k + 4) = <<"t", "r", "u", "e">>
    THEN json_constant(t, k, <<"t", "r", "u", "e">>, "bool")
    ELSE IF CharAt(t, k) = "f" /\ Slice(t, k, k + 5) = <<"f", "a", "l", "s", "e">>
    THEN json_constant(t, k, <<"f", "a", "l", "s", "e">>, "bool")
    ELSE number_or_constant(t, k, number_match(t, k))

\* JSONDecoder.decode after raw_decode gave v
decode_end(t, v) ==
    IF ~v.ok THEN Raise("JSONDecodeError", "")
    ELSE IF json_skip(t, v.end) # Len(t) THEN Raise("JSONDecodeError", "")
    ELSE Return(v.val)

\* json.loads(text): the decoded value, or JSONDecodeError (its message and
\* position are left out)
json_loads(t) == decode_end(t, scan_once(t, json_skip(t, 0)))

_parse_json_like(text) == json_loads(text)

----------------------------------------------------------------------------
(* The scanner run on every short text. *)

\* the characters the scanner tells apart, for the pair p
ScanAlphabet(p) == {p[1], p[2], DQ, SQ, BS, "a"}

\* the texts of section 8 of the design
Example1 == <<"[", DQ, "a", BS, DQ, "]", "b", DQ, "]">>
Example2 == <<"[", "1", ",", "2">>
\* a literal that holds a quote of the other style and a closing delimiter,
\* followed by an adjacent pair
Example3 == <<"[", DQ, "'", "]", DQ, "[", "]", "]">>

InitScan ==
    /\ mode = "scan"
    /\ pc = "ready"
    /\ \E p \in Pairs :
          /\ open_char = p[1]
          /\ close_char = p[2]
          /\ s \in TextsUpTo(ScanAlphabet(p), MaxLen) \cup {Example1, Example2, Example3}
    /\ start_index = 0
    /\ scan_result = NoResult
    /\ parts = <<>>
    /\ script_text = <<>>
    /\ locate_result = NoResult
    /\ files = <<>>
    /\ cache = <<>>
    /\ history = <<>>
    /\ called = NoCall
    /\ call_result = NoResult
    /\ load_path = ""
    /\ load_read = <<>>
    /\ load_result = NoResult

Scan ==
    /\ mode = "scan"
    /\ pc = "ready"
    /\ \E start \in 0..Len(s) :
          /\ start_index' = start
          /\ scan_result' = _extract_balanced(s, open_char, close_char, start)
    /\ pc' = "done"
    /\ UNCHANGED <<mode, s, open_char, close_char, locate_vars, load_vars,
                   catalog_vars>>

NextScan == Scan

SpecScan == InitScan /\ [][NextScan]_vars

----------------------------------------------------------------------------
(* The locator run on documents written from pieces, well-formed and not,  *)
(* and on every short argument text.                                       *)

\* text in front of the call
Pres == {<<>>,
     <<"{", "[", ",", " ">>}

\* the call name and its opening parenthesis, or less
Heads == {CallName \o <<"(">>, CallName \o <<" ", "\n", "(">>, CallName, <<>>}

\* first arguments: quoted literals, an identifier, a nested call
Targets == {<<"\"", "x", "\"">>,
     <<" ", "'", "x", "'", " ">>,
     <<"x">>,
     <<"\"", "a", ",", "b", "\"">>,
     <<"f", "(", "\"", "x", "\"", ")">>}

\* what separates the first argument from the second
Sep1s == {<<",">>,
     <<",", " ">>,
     <<" ">>}

\* second arguments that are JSON arrays
ValidSeries == {<<"[", "]">>,
     <<"[", "1", ",", "2", ",", "{", "\"", "k", "\"", ":", "\"", "a", ",", "b", "\"", "}", "]">>,
     <<"[", "[", "1", "]", ",", "\"", "\\", "\"", "]", "\"", "]">>}

\* second arguments
Serieses == ValidSeries \cup {<<"[", "1", ",", "2">>}

Sep2 == <<",", " ">>

\* third arguments that are JSON objects
ValidLayouts == {<<"{", "}">>,
     <<"{", "\"", "t", "i", "t", "l", "e", "\"", ":", "\"", "T", "\"", "}">>,
     <<"{", "\"", "a", "\"", ":", "\"", "}", "{", "\"", ",", "\"", "b", "\"", ":", "[", "{", "}", "]", "}">>}

\* third arguments
Layouts == ValidLayouts \cup {<<"{", "\"", "a", "\"", ":", "1">>}

\* fourth arguments that are brace spans, with their separator
BraceOptions == {<<",", " ", "{", "}">>,
     <<",", " ", "{", "\"", "r", "\"", ":", "\"", "}", ")", "\"", "}">>}

\* what follows the third argument inside the call
Options == BraceOptions \cup {<<>>,
     <<",", " ", "\"", "{", "\"">>,
     <<",", " ", "{", "\"", "r", "\"">>}

\* the end of the call
Closes == {<<")">>,
     <<>>}

\* a second call
SecondCall == <<";", "P", "l", "o", "t", "l", "y", ".", "n", "e", "w", "P", "l", "o", "t", "(", "\"", "y", "\"", ",", " ", "[", "2", "]", ",", " ", "{", "\"", "b", "\"", ":", "1", "}", ",", " ", "{", "\"", "c", "\"", ":", "1", "}", ")">>

\* text behind the call
Posts == {<<>>, <<";", "{", "}">>, SecondCall}

\* the characters of the short argument texts
BodyAlphabet == {",", "[", "]", "{", "}", ")", DQ}

NoParts ==
    [pre |-> <<>>, head |-> <<>>, target |-> <<>>, sep1 |-> <<>>,
     series |-> <<>>, sep2 |-> <<>>, layout |-> <<>>, options |-> <<>>,
     close |-> <<>>, post |-> <<>>]

\* the documents written from pieces
PieceDocs ==
    [pre : Pres, head : Heads, target : Targets, sep1 : Sep1s,
     series : Serieses, sep2 : {Sep2}, layout : Layouts, options : Options,
     close : Closes, post : Posts]

\* the documents that are the call name, "(" and a short text
ShortDocs ==
    {[NoParts EXCEPT !.head = CallName \o <<"(">>, !.target = b] :
        b \in TextsUpTo(BodyAlphabet, MaxBody)}

\* the text of a document
TextOf(d) ==
    d.pre \o d.head \o d.target \o d.sep1 \o d.series \o d.sep2 \o d.layout
    \o d.options \o d.close \o d.post

InitLocate ==
    /\ mode = "locate"
    /\ pc = "ready"
    /\ parts \in PieceDocs \cup ShortDocs
    /\ script_text = TextOf(parts)
    /\ locate_result = WithLocals(NoResult, NoLocals)
    /\ s = <<>>
    /\ open_char = ""
    /\ close_char = ""
    /\ start_index = 0
    /\ scan_result = NoResult
    /\ files = <<>>
    /\ cache = <<>>
    /\ history = <<>>
    /\ called = NoCall
    /\ call_result = NoResult
    /\ load_path = ""
    /\ load_read = <<>>
    /\ load_result = NoResult

Locate ==
    /\ mode = "locate"
    /\ pc = "ready"
    /\ locate_result' = _extract_plotly_call_args(script_text)
    /\ pc' = "done"
    /\ UNCHANGED <<mode, parts, script_text, scan_vars, load_vars, catalog_vars>>

NextLocate == Locate

SpecLocate == InitLocate /\ [][NextLocate]_vars

----------------------------------------------------------------------------
(* load_plot_json_from_html and its lru_cache *)

\* the size of the cache
maxsize == 64

\* the start of the message of the ValueError of line 169; the path follows
NoCallFound == "No Plotly.newPlot call found in "

\* sub in t
contains(t, sub) ==
    \E p \in 0..(Len(t) - Len(sub)) : Slice(t, p, p + Len(sub)) = sub

\* mutant of with_config: a config that does not decode is stored as null
with_config_always(result, config) ==
    [data |-> result.data, layout |-> result.layout,
     config |-> IF config.exc = "" THEN config.value ELSE JValue("NoneType", <<>>)]

\* lines 175-180: the dict with the config, when config is a decoded dict
with_config(result, config) ==
    IF config.exc = "" /\ config.value.type = "dict"
    THEN [data |-> result.data, layout |-> result.layout, config |-> config.value]
    ELSE result

\* lines 173-181: the dict returned
result_dict(data, layout, config_str) ==
    IF config_str # None /\ config_str[1] # <<>>
    THEN with_config([data |-> data, layout |-> layout], _parse_json_like(config_str[1]))
    ELSE [data |-> data, layout |-> layout]

\* mutant of load_layout: a layout that does not decode becomes an empty object
load_layout_default(data, layout, config_str) ==
    Return(result_dict(data.value,
                       IF layout.exc # "" THEN JValue("dict", <<>>) ELSE layout.value,
                       config_str))

\* lines 172-181, after the data decoded to data
load_layout(data, layout, config_str) ==
    IF layout.exc # "" THEN layout
    ELSE Return(result_dict(data.value, layout.value, config_str))

\* lines 171-181, after the locator returned
load_data(data, layout_str, config_str) ==
    IF data.exc # "" THEN data
    ELSE load_layout(data, _parse_json_like(layout_str), config_str)

\* lines 170-181, after the locator gave args
load_args(args) ==
    IF args.exc # "" THEN Raise(args.exc, args.msg)
    ELSE load_data(_parse_json_like(args.value[2]), args.value[3], args.value[4])

\* mutant of load_html: the text is not searched for the call name
load_html_no_name_check(path, html) == load_args(_extract_plotly_call_args(html))

\* lines 168-181, after the file was read
load_html(path, html) ==
    IF ~contains(html, CallName) THEN Raise("ValueError", NoCallFound \o path)
    ELSE load_args(_extract_plotly_call_args(html))

\* the body of load_plot_json_from_html, on the file system fs
load_plot_json_from_html(path, fs) ==
    IF fs[path] = None THEN Raise("FileNotFoundError", path)
    ELSE load_html(path, fs[path][1])

\* the indices of the cache entries for path
cache_hits(c, path) == {n \in 1..Len(c) : c[n].key = path}

\* the sequence c without its n-th element
without(c, n) == SubSeq(c, 1, n - 1) \o SubSeq(c, n + 1, Len(c))

\* the cache after a hit on its n-th entry: the entry becomes the newest
cache_touch(c, n) == Append(without(c, n), c[n])

\* mutant of cache_store: the cache is taken to be full one entry early
cache_store_one_less(c, path, result) ==
    Append(IF Len(c) >= maxsize - 1 THEN Tail(c) ELSE c, [key |-> path, result |-> result])

\* the cache after a miss that returned: the oldest entry leaves a full cache
cache_store(c, path, result) ==
    Append(IF Len(c) >= maxsize THEN Tail(c) ELSE c, [key |-> path, result |-> result])

----------------------------------------------------------------------------
(* The loader run on files that are written and replaced. *)

Paths == {"a.html", "b.html"}

\* documents: without the call name, with the name and no parenthesis, with
\* whitespace before the parenthesis, the example of the design, a call with
\* options, a series that is no JSON, options that are no JSON, no comma
DocNoName == <<"<", "d", "i", "v", ">", "[", "1", "]", "<", "/", "d", "i", "v", ">">>
DocNameOnly == <<"<", "!", "-", "-", " ", "P", "l", "o", "t", "l", "y", ".", "n", "e", "w", "P", "l", "o", "t", " ", "-", "-", ">", "[", "1", "]", "{", "}">>
DocSpaced == <<"P", "l", "o", "t", "l", "y", ".", "n", "e", "w", "P", "l", "o", "t", " ", "\n", "(", "\"", "x", "\"", ",", " ", "[", "1", "]", ",", " ", "{", "}", ")">>
DocThree == <<"P", "l", "o", "t", "l", "y", ".", "n", "e", "w", "P", "l", "o", "t", "(", "\"", "x", "\"", ",", " ", "[", "1", ",", "2", ",", "{", "\"", "k", "\"", ":", "\"", "a", ",", "b", "\"", "}", "]", ",", " ", "{", "\"", "t", "i", "t", "l", "e", "\"", ":", "\"", "T", "\"", "}", ")">>
DocFour == <<"P", "l", "o", "t", "l", "y", ".", "n", "e", "w", "P", "l", "o", "t", "(", "\"", "x", "\"", ",", " ", "[", "]", ",", " ", "{", "}", ",", " ", "{", "\"", "r", "\"", ":", "t", "r", "u", "e", "}", ")">>
DocBadSeries == <<"P", "l", "o", "t", "l", "y", ".", "n", "e", "w", "P", "l", "o", "t", "(", "\"", "x", "\"", ",", " ", "[", "1", ",", "]", ",", " ", "{", "}", ")">>
DocBadOptions == <<"P", "l", "o", "t", "l", "y", ".", "n", "e", "w", "P", "l", "o", "t", "(", "\"", "x", "\"", ",", " ", "[", "]", ",", " ", "{", "}", ",", " ", "{", "r", ":", "1", "}", ")">>
DocNoComma == <<"P", "l", "o", "t", "l", "y", ".", "n", "e", "w", "P", "l", "o", "t", "(", "x", ")">>
\* a layout that is no JSON; options whose brace is never closed
DocBadLayout == <<"P", "l", "o", "t", "l", "y", ".", "n", "e", "w", "P", "l", "o", "t", "(", "\"", "x", "\"", ",", " ", "[", "]", ",", " ", "{", "a", ":", "1", "}", ")">>
DocOpenOptions == <<"P", "l", "o", "t", "l", "y", ".", "n", "e", "w", "P", "l", "o", "t", "(", "\"", "x", "\"", ",", " ", "[", "]", ",", " ", "{", "}", ",", " ", "{", "\"", "r", "\"", ":", "1", ")">>

FileDocs ==
    {DocNoName, DocNameOnly, DocSpaced, DocThree, DocFour, DocBadSeries,
     DocBadOptions, DocNoComma, DocBadLayout, DocOpenOptions}

\* what a path can hold: no file, or a file with one of the documents
FileStates == {None} \cup {Some(d) : d \in FileDocs}

InitLoad ==
    /\ mode = "load"
    /\ pc = "ready"
    /\ files \in [Paths -> FileStates]
    /\ cache = <<>>
    /\ history = <<>>
    /\ called = NoCall
    /\ call_result = NoResult
    /\ load_path = ""
    /\ load_read = None
    /\ load_result = NoResult
    /\ s = <<>>
    /\ open_char = ""
    /\ close_char = ""
    /\ start_index = 0
    /\ scan_result = NoResult
    /\ parts = <<>>
    /\ script_text = <<>>
    /\ locate_result = NoResult

\* what is remembered of the calls for a path before the first one
NoHistory == [result |-> NoResult, prev |-> NoResult, others |-> {}]

\* what is remembered after a call for path gave r: for path, if it is
\* followed, this outcome and the one before it; for every other path that
\* is followed, one more path called since its last call
Remember(path, r) ==
    [p \in DOMAIN history |->
        IF p = path
        THEN [result |-> r, prev |-> history[p].result, others |-> {}]
        ELSE [history[p] EXCEPT !.others = @ \cup {path}]]

\* the lru_cache wrapper on a hit on the n-th entry of the cache c: what the
\* call returns, the cache after it, and the text read
cache_hit(c, n) ==
    [result |-> Return(c[n].result), cache |-> cache_touch(c, n), read |-> None]

\* mutant of cache_miss: what a call that raised left behind is stored as well
cache_miss_keep_failure(c, path, r, doc) ==
    [result |-> r, cache |-> cache_store(c, path, r.value), read |-> doc]

\* the lru_cache wrapper on a miss, the body having given r from the text doc
cache_miss(c, path, r, doc) ==
    [result |-> r,
     cache |-> IF r.exc = "" THEN cache_store(c, path, r.value) ELSE c,
     read |-> doc]

\* load_plot_json_from_html(path) through the lru_cache wrapper, on the
\* cache c and the file system fs
lru_cache_call(c, path, fs) ==
    IF cache_hits(c, path) # {}
    THEN cache_hit(c, CHOOSE n \in cache_hits(c, path) : TRUE)
    ELSE cache_miss(c, path, load_plot_json_from_html(path, fs), fs[path])

\* the state after the call for path went through the wrapper as o tells
Loaded(path, o) ==
    /\ load_result' = o.result
    /\ cache' = o.cache
    /\ load_read' = o.read
    /\ history' = Remember(path, o.result)

\* a call load_plot_json_from_html(path)
Load(path) ==
    /\ mode = "load"
    /\ load_path' = path
    /\ Loaded(path, lru_cache_call(cache, path, files))
    /\ UNCHANGED <<mode, pc, files, scan_vars, locate_vars, catalog_vars>>

\* the file at a path is written, replaced or removed
WriteFile(path, content) ==
    /\ mode = "load"
    /\ files[path] # content
    /\ files' = [files EXCEPT ![path] = content]
    /\ UNCHANGED <<mode, pc, cache, load_path, load_read, load_result, history,
                   scan_vars, locate_vars, catalog_vars>>

NextLoad ==
    \/ \E path \in Paths : Load(path)
    \/ \E path \in Paths, content \in FileStates : WriteFile(path, content)

SpecLoad == InitLoad /\ [][NextLoad]_vars

----------------------------------------------------------------------------
(* The loader called for one path that is followed, whose file is written   *)
(* and replaced, and for as many other paths as the cache has room for,     *)
(* each called once, one after the other.                                   *)

Target == "a.html"

\* the k-th of the other paths
Filler(k) == "f" \o ToString(k) \o ".html"

Fillers == {Filler(k) : k \in 1..maxsize}

\* the document of every other path
DocPlain == <<"P", "l", "o", "t", "l", "y", ".", "n", "e", "w", "P", "l", "o", "t", "(", "x", ",", "[", "]", ",", "{", "}", ")">>

\* what the followed path can hold: no file, two documents that load to
\* different records, one whose series is no JSON
TargetStates == {None, Some(DocThree), Some(DocFour), Some(DocBadSeries)}

InitEvict ==
    /\ mode = "load"
    /\ pc = "ready"
    /\ \E content \in TargetStates :
          files = [p \in {Target} \cup Fillers |->
                      IF p = Target THEN content ELSE Some(DocPlain)]
    /\ cache = <<>>
    /\ history = [p \in {Target} |-> NoHistory]
    /\ called = NoCall
    /\ call_result = NoResult
    /\ load_path = ""
    /\ load_read = None
    /\ load_result = NoResult
    /\ s = <<>>
    /\ open_char = ""
    /\ close_char = ""
    /\ start_index = 0
    /\ scan_result = NoResult
    /\ parts = <<>>
    /\ script_text = <<>>
    /\ locate_result = NoResult

\* the number of the other path to call next: they are called in order, so
\* the last one called is the one with the highest number in the cache
next_filler ==
    LET cached == {k \in 1..maxsize : cache_hits(cache, Filler(k)) # {}}
    IN  IF cached = {} THEN 1 ELSE 1 + (CHOOSE k \in cached : \A j \in cached : j <= k)

NextEvict ==
    \/ Load(Target)
    \/ next_filler <= maxsize /\ Load(Filler(next_filler))
    \/ \E content \in TargetStates : WriteFile(Target, content)

SpecEvict == InitEvict /\ [][NextEvict]_vars

----------------------------------------------------------------------------
(* _find_plot_file.  A directory is the sequence of its components below    *)
(* the repository root (<<>> is the root), a file name is a text, a path is *)
(* a directory with a name.  The file system is keyed by the path written   *)
(* out relative to the root.                                                *)

\* MaxFiles bounds the number of files the file system of the resolver holds
MaxFiles == 2

\* _plots_dir(), and the directory of the module (python/ in the repository)
plots_dir == <<"docs", "plots">>
module_dir == <<"python">>

\* lines 55-63: the directories of the candidates, in order
candidate_dirs ==
    << <<>>, <<"web">>, <<"public">>, <<"docs">>, <<"static">>, <<"site">>, module_dir >>

\* the characters of a text, written as a string
RECURSIVE NameString(_)
NameString(name) ==
    IF name = <<>> THEN "" ELSE Head(name) \o NameString(Tail(name))

\* the components of a directory, each followed by a slash
RECURSIVE DirString(_)
DirString(dir) ==
    IF dir = <<>> THEN "" ELSE Head(dir) \o "/" \o DirString(Tail(dir))

PlotEntry(key, filename, fallback_title) ==
    [key |-> key, filename |-> filename, fallback_title |-> fallback_title]

\* lines 19-30
PLOT_ENTRIES ==
    <<
       PlotEntry("third_seroperevalence",
                 <<"T", "h", "i", "r", "d", " ", "S", "e", "r", "o", "p", "e", "r", "e", "v", "a", "l", "e", "n", "c", "e", ".", "h", "t", "m", "l">>,
                 <<"T", "h", "i", "r", "d", " ", "S", "e", "r", "o", "p", "e", "r", "e", "v", "a", "l", "e", "n", "c", "e">>),
       PlotEntry("another_histogram_for_participation",
                 <<"A", "n", "o", "t", "h", "e", "r", " ", "H", "i", "s", "t", "o", "g", "r", "a", "m", " ", "f", "o", "r", " ", "P", "a", "r", "t", "i", "c", "i", "p", "a", "t", "i", "o", "n", ".", "h", "t", "m", "l">>,
                 <<"A", "n", "o", "t", "h", "e", "r", " ", "H", "i", "s", "t", "o", "g", "r", "a", "m", " ", "f", "o", "r", " ", "P", "a", "r", "t", "i", "c", "i", "p", "a", "t", "i", "o", "n">>),
       PlotEntry("interval_days",
                 <<"I", "n", "t", "e", "r", "v", "a", "l", " ", "d", "a", "y", "s", ".", "h", "t", "m", "l">>,
                 <<"I", "n", "t", "e", "r", "v", "a", "l", " ", "d", "a", "y", "s">>),
       PlotEntry("npi",
                 <<"N", "P", "I", ".", "h", "t", "m", "l">>,
                 <<"N", "P", "I">>),
       PlotEntry("number_of_participation",
                 <<"n", "u", "m", "b", "e", "r", " ", "o", "f", " ", "p", "a", "r", "t", "i", "c", "i", "p", "a", "t", "i", "o", "n", ".", "h", "t", "m", "l">>,
                 <<"n", "u", "m", "b", "e", "r", " ", "o", "f", " ", "p", "a", "r", "t", "i", "c", "i", "p", "a", "t", "i", "o", "n">>),
       PlotEntry("mask_shop_usage",
                 <<"m", "a", "s", "k", " ", "s", "h", "o", "p", " ", "u", "s", "a", "g", "e", ".", "h", "t", "m", "l">>,
                 <<"m", "a", "s", "k", " ", "s", "h", "o", "p", " ", "u", "s", "a", "g", "e">>),
       PlotEntry("partixipation",
                 <<"P", "a", "r", "t", "i", "x", "i", "p", "a", "t", "i", "o", "n", ".", "h", "t", "m", "l">>,
                 <<"P", "a", "r", "t", "i", "x", "i", "p", "a", "t", "i", "o", "n">>),
       PlotEntry("prevalence",
                 <<"P", "r", "e", "v", "a", "l", "e", "n", "c", "e", ".", "h", "t", "m", "l">>,
                 <<"P", "r", "e", "v", "a", "l", "e", "n", "c", "e">>),
       PlotEntry("box_plot_health_status",
                 <<"B", "o", "x", " ", "P", "l", "o", "t", " ", "H", "e", "a", "l", "t", "h", " ", "S", "t", "a", "t", "u", "s", ".", "h", "t", "m", "l">>,
                 <<"B", "o", "x", " ", "P", "l", "o", "t", " ", "H", "e", "a", "l", "t", "h", " ", "S", "t", "a", "t", "u", "s">>),
       PlotEntry("distribution_level",
                 <<"d", "i", "s", "t", "r", "i", "b", "u", "t", "i", "o", "n", "_", "l", "e", "v", "e", "l", ".", "h", "t", "m", "l">>,
                 <<"I", "n", "c", "o", "m", "e", " ", "D", "i", "s", "t", "r", "i", "b", "u", "t", "i", "o", "n", " ", "(", "d", "i", "s", "t", "r", "i", "b", "u", "t", "i", "o", "n", "_", "l", "e", "v", "e", "l", ")">>)
    >>

\* the directories and the file names of the file systems that are explored
TreeDirs ==
    {plots_dir, <<>>, <<"web">>, <<"public">>, <<"docs">>, <<"static">>,
     <<"site">>, module_dir, <<"data">>, <<"data", "old">>}

PlainName == <<"a", "b">>
ClassName == <<"a", "[", "b", "]">>
OtherName == <<"c", "b">>

TreeNames == {PlainName, ClassName, OtherName}

CatalogNames == {PLOT_ENTRIES[n].filename : n \in 1..Len(PLOT_ENTRIES)}

\* the paths of the resolver's file systems, and those of all file systems
ResolvePaths == {[dir |-> d, name |-> n] : d \in TreeDirs, n \in TreeNames}

TreePaths == {[dir |-> d, name |-> n] : d \in TreeDirs, n \in TreeNames \cup CatalogNames}

\* str(path.relative_to(_repo_root())), for every path
PathStrings == [path \in TreePaths |-> DirString(path.dir) \o NameString(path.name)]

PathString(path) == PathStrings[path]

\* path.exists()
exists(fs, path) == PathString(path) \in DOMAIN fs /\ fs[PathString(path)] # None

\* fnmatch.translate: the index of the "]" that ends the class whose first
\* character is at index j, or Len(pat)
RECURSIVE class_scan(_, _)
class_scan(pat, j) ==
    IF j < Len(pat) /\ At(pat, j) # "]" THEN class_scan(pat, j + 1) ELSE j

\* fnmatch.translate: a leading "]" belongs to the class
class_after_bracket(pat, j) ==
    class_scan(pat, IF j < Len(pat) /\ At(pat, j) = "]" THEN j + 1 ELSE j)

\* fnmatch.translate: a leading "!" negates the class
class_end(pat, i) ==
    class_after_bracket(pat, IF i < Len(pat) /\ At(pat, i) = "!" THEN i + 1 ELSE i)

\* the character ch is in the class written as stuff (no ranges)
class_matches(ch, stuff) ==
    IF Head(stuff) = "!"
    THEN ch \notin {stuff[k] : k \in 2..Len(stuff)}
    ELSE ch \in {stuff[k] : k \in 1..Len(stuff)}

\* the pattern from index j on matches the name from index i on
RECURSIVE fnmatch_from(_, _, _, _)
fnmatch_from(name, i, pat, j) ==
    IF j >= Len(pat) THEN i = Len(name)
    ELSE IF At(pat, j) = "*"
    THEN \E k \in i..Len(name) : fnmatch_from(name, k, pat, j + 1)
    ELSE IF At(pat, j) = "?"
    THEN i < Len(name) /\ fnmatch_from(name, i + 1, pat, j + 1)
    ELSE IF At(pat, j) = "[" /\ class_end(pat, j + 1) < Len(pat)
    THEN /\ i < Len(name)
         /\ class_matches(At(name, i), Slice(pat, j + 1, class_end(pat, j + 1)))
         /\ fnmatch_from(name, i + 1, pat, class_end(pat, j + 1) + 1)
    ELSE /\ i < Len(name)
         /\ At(name, i) = At(pat, j)
         /\ fnmatch_from(name, i + 1, pat, j + 1)

\* pathlib: a pattern with "*", "?" or "[" is matched as a pattern, any
\* other one is the name looked for
is_wildcard_pattern(pat) == \E k \in 1..Len(pat) : pat[k] \in {"*", "?", "["}

\* directory a lies above directory b
IsAbove(a, b) == Len(a) < Len(b) /\ SubSeq(b, 1, Len(a)) = a

\* root.rglob(filename): the paths of the existing files that the pattern
\* selects
rglob(fs, pattern) ==
    IF is_wildcard_pattern(pattern)
    THEN {path \in TreePaths : fnmatch_from(path.name, 0, pattern, 0) /\ exists(fs, path)}
    ELSE {path \in TreePaths : path.name = pattern /\ exists(fs, path)}

\* what matches[0] can be: rglob yields a directory's files before those of
\* the directories below it, and directories side by side in any order
first_matches(matches) ==
    {m \in matches : \A o \in matches : ~IsAbove(o.dir, m.dir)}

CouldNotFind == "Could not find plot HTML file: "
Searched == " (searched docs/plots and repo root)"

\* lines 68-73: the outcomes of the search by name
last_resort(fs, filename) ==
    IF rglob(fs, filename) # {}
    THEN {Return(m) : m \in first_matches(rglob(fs, filename))}
    ELSE {Raise("FileNotFoundError", CouldNotFind \o NameString(filename) \o Searched)}

\* lines 64-66: the loop over the candidates, from the n-th one on
RECURSIVE candidates_from(_, _, _)
candidates_from(fs, filename, n) ==
    IF n > Len(candidate_dirs) THEN last_resort(fs, filename)
    ELSE IF exists(fs, [dir |-> candidate_dirs[n], name |-> filename])
    THEN {Return([dir |-> candidate_dirs[n], name |-> filename])}
    ELSE candidates_from(fs, filename, n + 1)

\* _find_plot_file(filename) on the file system fs: the paths it can return,
\* or the error it raises
_find_plot_file(fs, filename) ==
    IF exists(fs, [dir |-> plots_dir, name |-> filename])
    THEN {Return([dir |-> plots_dir, name |-> filename])}
    ELSE candidates_from(fs, filename, 1)

----------------------------------------------------------------------------
(* The resolver called on file systems of at most MaxFiles files. *)

\* the sets of at most k elements of S
RECURSIVE SubsetsUpTo(_, _)
SubsetsUpTo(S, k) ==
    IF k = 0 THEN {{}}
    ELSE SubsetsUpTo(S, k - 1) \cup {P \cup {x} : P \in SubsetsUpTo(S, k - 1), x \in S}

\* the file system that holds a file with the document doc at the paths of P
\* and none at the other paths of T
FileSystem(T, P, doc) ==
    [q \in {PathString(path) : path \in T} |->
        IF \E path \in P : PathString(path) = q THEN Some(doc) ELSE None]

\* the names the resolver is called with
Filenames == {PlainName, ClassName}

InitResolve ==
    /\ mode = "resolve"
    /\ pc = "ready"
    /\ \E P \in SubsetsUpTo(ResolvePaths, MaxFiles) :
          files = FileSystem(ResolvePaths, P, DocPlain)
    /\ cache = <<>>
    /\ history = <<>>
    /\ called = NoCall
    /\ call_result = NoResult
    /\ load_path = ""
    /\ load_read = None
    /\ load_result = NoResult
    /\ s = <<>>
    /\ open_char = ""
    /\ close_char = ""
    /\ start_index = 0
    /\ scan_result = NoResult
    /\ parts = <<>>
    /\ script_text = <<>>
    /\ locate_result = NoResult

\* a call _find_plot_file(filename)
Resolve(filename) ==
    /\ mode = "resolve"
    /\ pc = "ready"
    /\ \E outcome \in _find_plot_file(files, filename) :
          /\ called' = [op |-> "_find_plot_file", arg |-> filename, loads |-> <<>>]
          /\ call_result' = outcome
    /\ pc' = "done"
    /\ UNCHANGED <<mode, scan_vars, locate_vars, load_vars>>

NextResolve == \E filename \in Filenames : Resolve(filename)

SpecResolve == InitResolve /\ [][NextResolve]_vars

----------------------------------------------------------------------------
(* The catalog and the functions that go through it: list_plots,            *)
(* get_figure_json and get_all_figures_json.                                *)

\* None, as a value
PyNone == JValue("NoneType", <<>>)

\* a str, as a value
PyStr(text) == JValue("str", text)

\* the text of a number is that of a zero: no digit but 0 before the exponent
number_is_zero(text) ==
    \A k \in 1..Len(text) :
        (\A j \in 1..k : text[j] \notin {"e", "E"}) => text[k] \in {"0", ".", "-"}

\* bool(v)
truthy(v) ==
    IF v.type = "NoneType" THEN FALSE
    ELSE IF v.type = "bool" THEN v.items = <<"t", "r", "u", "e">>
    ELSE IF v.type \in {"int", "float"} THEN ~number_is_zero(v.items)
    ELSE v.items # <<>>

\* d.get(key, default) on a dict
dict_get(d, key, default) ==
    IF \E n \in 1..Len(d.items) : d.items[n].key = key
    THEN d.items[CHOOSE n \in 1..Len(d.items) : d.items[n].key = key].value
    ELSE default

\* a or b
or_else(a, b) == IF truthy(a) THEN a ELSE b

\* lines 195, 198-201: the title, given layout.get("title") and the fallback
title_from(layout_title, fallback) ==
    IF layout_title.type = "dict"
    THEN or_else(dict_get(layout_title, <<"t", "e", "x", "t">>, fallback), fallback)
    ELSE IF layout_title.type = "str" /\ strip(layout_title.items) # <<>>
    THEN PyStr(strip(layout_title.items))
    ELSE fallback

\* lines 194-202: the item of an entry whose file is at path and loaded to
\* fig_json
loaded_item(e, path, fig_json) ==
    [key |-> e.key,
     title |-> title_from(dict_get(fig_json.layout, <<"t", "i", "t", "l", "e">>, PyNone),
                          PyStr(e.fallback_title)),
     filename |-> PathString(path)]

\* line 204 and line 230: the path reported for an entry that failed
default_filename(e) == "docs/plots/" \o NameString(e.filename)

\* line 204: the item of an entry that failed
fallback_item(e) ==
    [key |-> e.key, title |-> PyStr(e.fallback_title), filename |-> default_filename(e)]

RECURSIVE list_from(_, _, _, _, _)

\* lines 193-204, after the load of the file found at path went through the
\* wrapper as o tells
list_loaded(fs, n, items, path, loads, o) ==
    list_from(fs, n + 1, o.cache,
              Append(items, IF o.result.exc # "" THEN fallback_item(PLOT_ENTRIES[n])
                            ELSE loaded_item(PLOT_ENTRIES[n], path, o.result.value)),
              Append(loads, PathString(path)))

\* mutant of list_found: an entry that is not found ends the listing
list_found_raises(fs, n, c, items, loads, found) ==
    IF found.exc # ""
    THEN {[result |-> found, cache |-> c, loads |-> loads]}
    ELSE list_loaded(fs, n, items, found.value, loads,
                     lru_cache_call(c, PathString(found.value), fs))

\* lines 192-204, after the resolver gave found
list_found(fs, n, c, items, loads, found) ==
    IF found.exc # ""
    THEN list_from(fs, n + 1, c, Append(items, fallback_item(PLOT_ENTRIES[n])), loads)
    ELSE list_loaded(fs, n, items, found.value, loads,
                     lru_cache_call(c, PathString(found.value), fs))

\* lines 190-205: the loop from the n-th entry on, with the cache c, the
\* items so far and the paths loaded so far; the set of what it can end with
list_from(fs, n, c, items, loads) ==
    IF n > Len(PLOT_ENTRIES)
    THEN {[result |-> Return(items), cache |-> c, loads |-> loads]}
    ELSE UNION {list_found(fs, n, c, items, loads, found) :
                    found \in _find_plot_file(fs, PLOT_ENTRIES[n].filename)}

\* list_plots() on the file system fs and the cache c
list_plots(fs, c) == list_from(fs, 1, c, <<>>, <<>>)

UnknownKey == "Unknown plot key: "

\* lines 217-218, after the resolver gave found
figure_found(fs, c, found) ==
    IF found.exc # ""
    THEN [result |-> found, cache |-> c, loads |-> <<>>]
    ELSE [result |-> lru_cache_call(c, PathString(found.value), fs).result,
          cache |-> lru_cache_call(c, PathString(found.value), fs).cache,
          loads |-> <<PathString(found.value)>>]

\* mutant of get_figure_json: an unknown key is looked up as the first entry
get_figure_json_default_entry(fs, c, key) ==
    {figure_found(fs, c, found) :
        found \in _find_plot_file(fs,
            PLOT_ENTRIES[IF \E n \in 1..Len(PLOT_ENTRIES) : PLOT_ENTRIES[n].key = key
                         THEN CHOOSE n \in 1..Len(PLOT_ENTRIES) : PLOT_ENTRIES[n].key = key
                         ELSE 1].filename)}

\* get_figure_json(key) on the file system fs and the cache c: the set of
\* what it can end with
get_figure_json(fs, c, key) ==
    IF ~\E n \in 1..Len(PLOT_ENTRIES) : PLOT_ENTRIES[n].key = key
    THEN {[result |-> Raise("KeyError", UnknownKey \o key), cache |-> c, loads |-> <<>>]}
    ELSE {figure_found(fs, c, found) :
            found \in _find_plot_file(fs,
                PLOT_ENTRIES[CHOOSE n \in 1..Len(PLOT_ENTRIES) :
                                /\ PLOT_ENTRIES[n].key = key
                                /\ \A j \in 1..(n - 1) : PLOT_ENTRIES[j].key # key].filename)}

\* line 230: the value of an entry that failed with ex
error_value(e, ex) == [error |-> ex.msg, filename |-> default_filename(e)]

RECURSIVE all_from(_, _, _, _, _)

\* mutant of all_got: an entry that failed is left out of the mapping
all_got_skips_failed(fs, n, out, loads, o) ==
    all_from(fs, n + 1, o.cache,
             IF o.result.exc = ""
             THEN Append(out, [key |-> PLOT_ENTRIES[n].key, value |-> o.result.value])
             ELSE out,
             loads \o o.loads)

\* lines 227-230, after get_figure_json ended as o tells
all_got(fs, n, out, loads, o) ==
    all_from(fs, n + 1, o.cache,
             Append(out, [key |-> PLOT_ENTRIES[n].key,
                          value |-> IF o.result.exc = "" THEN o.result.value
                                    ELSE error_value(PLOT_ENTRIES[n], o.result)]),
             loads \o o.loads)

\* lines 226-231: the loop from the n-th entry on; out holds the pairs of the
\* mapping in the order they were put in
all_from(fs, n, c, out, loads) ==
    IF n > Len(PLOT_ENTRIES)
    THEN {[result |-> Return(out), cache |-> c, loads |-> loads]}
    ELSE UNION {all_got(fs, n, out, loads, o) :
                    o \in get_figure_json(fs, c, PLOT_ENTRIES[n].key)}

\* get_all_figures_json() on the file system fs and the cache c
get_all_figures_json(fs, c) == all_from(fs, 1, c, <<>>, <<>>)

----------------------------------------------------------------------------
(* Reference notions the scanner claims are stated with.  They are defined  *)
(* from the text alone, not from the loop.                                  *)

\* the length of the run of backslashes that ends just before index j
RECURSIVE BackslashRun(_, _)
BackslashRun(t, j) ==
    IF j = 0 \/ At(t, j - 1) # BS THEN 0 ELSE 1 + BackslashRun(t, j - 1)

\* the index of the quote that ends the literal opened by the quote at p: the
\* first quote of the same style after p preceded by an even run of
\* backslashes; Len(t) when the literal never ends
LiteralEnd(t, p) ==
    LET ends == {j \in (p + 1)..(Len(t) - 1) :
                    At(t, j) = At(t, p) /\ BackslashRun(t, j) % 2 = 0}
    IN  IF ends = {} THEN Len(t)
        ELSE CHOOSE j \in ends : \A j2 \in ends : j <= j2

\* whether index k lies in a string literal read from index from on: after
\* the opening quote, up to and including the closing one
RECURSIVE InLiteral(_, _, _)
InLiteral(t, from, k) ==
    IF from >= k THEN FALSE
    ELSE IF At(t, from) \in {SQ, DQ}
    THEN LET e == LiteralEnd(t, from)
         IN  IF k <= e THEN TRUE ELSE InLiteral(t, e + 1, k)
    ELSE InLiteral(t, from + 1, k)

\* unquoted open minus unquoted close over the indices from..k
RefDepth(t, open, close, from, k) ==
    Cardinality({j \in from..k : At(t, j) = open /\ ~InLiteral(t, from, j)})
    - Cardinality({j \in from..k : At(t, j) = close /\ ~InLiteral(t, from, j)})

\* the indices at which the unquoted depth is back to 0
Balanced(t, open, close, from) ==
    {k \in from..(Len(t) - 1) : RefDepth(t, open, close, from, k) = 0}

\* the locals of the loop when it reaches index k (or has returned before)
LocalsAt(k) == while_loop(Slice(s, 0, k), open_char, close_char, loop_init(start_index))

\* the scanner was called on a start index that holds the opening delimiter
ScanRan ==
    /\ mode = "scan"
    /\ pc = "done"
    /\ start_index < Len(s)
    /\ At(s, start_index) = open_char

----------------------------------------------------------------------------
(* Claims about the scanner. *)

\* C1: the scanner is inside a string literal exactly on the indices between
\* an opening quote and the first later quote of the same style preceded by
\* an even-length (possibly empty) run of backslashes: it never ends a literal
\* at a quote preceded by an odd run, and ends it at the first one preceded
\* by an even run.  So ["a\"]b"] is returned whole.
C1_EscapedQuote ==
    ScanRan =>
        /\ \A k \in start_index..Len(s) :
              ~LocalsAt(k).returned =>
                  LocalsAt(k).in_string = InLiteral(s, start_index, k)
        /\ (s = Example1 /\ start_index = 0) =>
              scan_result = Return(<<Example1, 9>>)

C1_Witness ==
    /\ ScanRan
    /\ s = Example1
    /\ start_index = 0
    /\ scan_result = Return(<<Example1, Len(Example1)>>)
    /\ BackslashRun(s, 4) = 1
    /\ At(s, 5) = "]"

\* C2: when the scanner returns (span, end), end - 1 is the first index at
\* which the unquoted depth since start is back to 0, span is text[start:end],
\* span begins with the opening and ends with the closing delimiter, and the
\* depth the loop keeps counts unquoted delimiters only.
C2_FirstBalance ==
    (ScanRan /\ scan_result.exc = "") =>
        LET span == scan_result.value[1]
            end == scan_result.value[2]
        IN  /\ end - 1 \in Balanced(s, open_char, close_char, start_index)
            /\ \A k \in Balanced(s, open_char, close_char, start_index) : end - 1 <= k
            /\ span = Slice(s, start_index, end)
            /\ At(span, 0) = open_char
            /\ At(span, Len(span) - 1) = close_char
            /\ \A k \in (start_index + 1)..(end - 1) :
                  LocalsAt(k).depth = RefDepth(s, open_char, close_char, start_index, k - 1)

\* a returned span that holds delimiters inside literals of both styles
C2_Witness ==
    /\ ScanRan
    /\ scan_result.exc = ""
    /\ \E j \in start_index..(scan_result.value[2] - 1) :
          /\ At(s, j) = close_char
          /\ InLiteral(s, start_index, j)
    /\ \E j \in start_index..(scan_result.value[2] - 1) :
          /\ At(s, j) = SQ
          /\ InLiteral(s, start_index, j)
          /\ At(s, j - 1) = DQ

\* C3: on a valid start the scanner ends, with a whole span or with
\* UnbalancedSpan: each iteration returns or advances the index by one, and
\* UnbalancedSpan is raised, with nothing returned, exactly when the unquoted
\* depth is never back to 0 before the end of the text.
C3_Unbalanced ==
    ScanRan =>
        /\ \A k \in start_index..(Len(s) - 1) :
              ~LocalsAt(k).returned =>
                  LET nx == loop_body(s, open_char, close_char, LocalsAt(k))
                  IN  LocalsAt(k).i = k /\ (nx.returned \/ nx.i = k + 1)
        /\ (Balanced(s, open_char, close_char, start_index) = {})
              <=> (scan_result = Raise("ValueError", UnbalancedSpan))
        /\ (Balanced(s, open_char, close_char, start_index) # {})
              <=> (scan_result.exc = "")

C3_Witness ==
    /\ ScanRan
    /\ s = Example2
    /\ start_index = 0
    /\ scan_result = Raise("ValueError", UnbalancedSpan)
    /\ scan_result.value = <<>>

----------------------------------------------------------------------------
(* Reference notions the locator claims are stated with. *)

Min(S) == CHOOSE x \in S : \A y \in S : x <= y

\* the locator was called
LocateRan == mode = "locate" /\ pc = "done"

\* the locator returned
LocateReturned == LocateRan /\ locate_result.exc = ""

\* the document is a call with a first argument, a JSON array, a JSON object
\* and no more
ThreeArgumentCall(d) ==
    /\ d.head \in {CallName \o <<"(">>, CallName \o <<" ", "\n", "(">>}
    /\ "," \in {d.sep1[k] : k \in 1..Len(d.sep1)}
    /\ d.series \in ValidSeries
    /\ d.layout \in ValidLayouts
    /\ d.options = <<>>
    /\ d.close = <<")">>

\* the document is such a call with a brace span as fourth argument
FourArgumentCall(d) ==
    /\ ThreeArgumentCall([d EXCEPT !.options = <<>>])
    /\ d.options \in BraceOptions

\* the brace span of a fourth argument, without its separator
OptionsSpan(d) == SubSeq(d.options, 3, Len(d.options))

\* the index of the delimiter that closes the one open at index k with depth
\* d delimiters open, string literals skipped whole; Len(t) when there is none
RECURSIVE MatchingClose(_, _, _, _, _)
MatchingClose(t, open, close, k, d) ==
    IF k >= Len(t) THEN Len(t)
    ELSE IF At(t, k) \in {SQ, DQ} THEN MatchingClose(t, open, close, LiteralEnd(t, k) + 1, d)
    ELSE IF At(t, k) = open THEN MatchingClose(t, open, close, k + 1, d + 1)
    ELSE IF At(t, k) = close
    THEN IF d = 1 THEN k ELSE MatchingClose(t, open, close, k + 1, d - 1)
    ELSE MatchingClose(t, open, close, k + 1, d)

\* the span of t that starts with the delimiter at index from and ends with
\* the delimiter that closes it
BalancedSpan(t, open, close, from) ==
    Slice(t, from, MatchingClose(t, open, close, from, 0) + 1)

\* the indices of the opening braces between the end of the layout span and
\* the parenthesis that matches the call's opening one
BracesInCall(t, l) ==
    LET paren == MatchingClose(t, "(", ")", l.idx - 1, 0)
    IN  {k \in l.after_layout..(paren - 1) : At(t, k) = "{"}

\* the number of brackets, braces and parentheses open at index k, counting
\* from index from and leaving out those in string literals
Nesting(t, from, k) ==
    Cardinality({j \in from..(k - 1) :
                    At(t, j) \in {"[", "{", "("} /\ ~InLiteral(t, from, j)})
    - Cardinality({j \in from..(k - 1) :
                    At(t, j) \in {"]", "}", ")"} /\ ~InLiteral(t, from, j)})

\* the commas from index from on that are in no string literal and no bracket
TopLevelCommas(t, from) ==
    {k \in from..(Len(t) - 1) :
        At(t, k) = "," /\ ~InLiteral(t, from, k) /\ Nesting(t, from, k) = 0}

----------------------------------------------------------------------------
(* Claims about the locator. *)

C7_TopLevelComma ==
    (LocateReturned /\ ThreeArgumentCall(parts)) =>
        LET idx == locate_result.locals.idx
            commas == TopLevelCommas(script_text, idx)
        IN  /\ commas # {}
            /\ locate_result.value[1] = strip(Slice(script_text, idx, Min(commas)))
            /\ locate_result.locals.data_start > Min(commas)

\* C8: when the call's opening parenthesis is found and no comma follows it
\* up to the end of the text, the locator raises MalformedCall.
C8_NoComma ==
    (LocateRan /\ re_search_end(script_text) # -1
        /\ \A k \in re_search_end(script_text)..(Len(script_text) - 1) :
              At(script_text, k) # ",") =>
        /\ locate_result.exc = "ValueError"
        /\ locate_result.msg = MalformedCall
        /\ locate_result.value = <<>>

\* no comma, though an array and an object follow the parenthesis
C8_Witness ==
    /\ LocateRan
    /\ parts.target = <<"[", "]", "{", "}", ")">>
    /\ parts.sep1 = <<>>
    /\ locate_result.msg = MalformedCall

----------------------------------------------------------------------------
(* Claims about the loader. *)

\* the call name occurs in t at index p
OccursAt(t, p) ==
    p + Len(CallName) <= Len(t) /\ Slice(t, p, p + Len(CallName)) = CallName

\* the call name occurs in t with an opening parenthesis right behind it
NameThenParen(t) ==
    \E p \in 0..(Len(t) - 1) : OccursAt(t, p) /\ CharAt(t, p + Len(CallName)) = "("

\* the call name occurs in t with an opening parenthesis behind it, nothing
\* but whitespace between the two
NameThenSpacedParen(t) ==
    \E p \in 0..(Len(t) - 1) :
        /\ OccursAt(t, p)
        /\ \E q \in (p + Len(CallName))..(Len(t) - 1) :
              /\ At(t, q) = "("
              /\ \A j \in (p + Len(CallName))..(q - 1) : At(t, j) \in Whitespace

\* the last call of load missed the cache and read a file
LoadRead == mode = "load" /\ load_read # None

\* C9 as claimed: a text without the call name makes load raise NoCallFound;
\* a text without the call name followed by an opening parenthesis makes the
\* locator raise CallNotFound; no record is returned or stored in the cache.
C9_NoCallClaimed ==
    LoadRead =>
        LET html == load_read[1]
        IN  /\ (~\E p \in 0..(Len(html) - 1) : OccursAt(html, p)) =>
                  /\ load_result = Raise("ValueError", NoCallFound \o load_path)
                  /\ cache_hits(cache, load_path) = {}
            /\ ~NameThenParen(html) =>
                  /\ _extract_plotly_call_args(html).exc = "ValueError"
                  /\ _extract_plotly_call_args(html).msg = CallNotFound
                  /\ load_result.exc = "ValueError"
                  /\ load_result.value = <<>>
                  /\ cache_hits(cache, load_path) = {}

\* C9 as amended: the same, for a text without the call name followed, after
\* whitespace or none, by an opening parenthesis.
C9_NoCall ==
    LoadRead =>
        LET html == load_read[1]
        IN  /\ (~\E p \in 0..(Len(html) - 1) : OccursAt(html, p)) =>
                  /\ load_result = Raise("ValueError", NoCallFound \o load_path)
                  /\ cache_hits(cache, load_path) = {}
            /\ ~NameThenSpacedParen(html) =>
                  /\ _extract_plotly_call_args(html).exc = "ValueError"
                  /\ _extract_plotly_call_args(html).msg = CallNotFound
                  /\ load_result.exc = "ValueError"
                  /\ load_result.value = <<>>
                  /\ cache_hits(cache, load_path) = {}
            /\ ((\E p \in 0..(Len(html) - 1) : OccursAt(html, p))
                    /\ ~NameThenSpacedParen(html)) =>
                  load_result = Raise("ValueError", CallNotFound)

\* the name without a parenthesis, read while the other path is cached
C9_Witness ==
    /\ LoadRead
    /\ load_read = Some(DocNameOnly)
    /\ load_result = Raise("ValueError", CallNotFound)
    /\ cache # <<>>
    /\ cache_hits(cache, load_path) = {}

\* what the locator returns on the text the last call read
ReadArgs == _extract_plotly_call_args(load_read[1])

\* the text the last call read holds the call name and the locator returns
\* its arguments (the locator returns even when its own search for the call
\* is what finds the name)
ArgsLocated ==
    /\ LoadRead
    /\ \E p \in 0..(Len(load_read[1]) - 1) : OccursAt(load_read[1], p)
    /\ ReadArgs.exc = ""

\* x is the text of a JSON value
ValidJson(x) == json_loads(x).exc = ""

\* C11: when the series substring or the layout substring is no valid JSON,
\* load raises JSONDecodeError, returns no record and stores none; a record
\* that is returned holds the decoded series and the decoded layout, never a
\* default.
C11_DecodeErrorPropagates ==
    ArgsLocated =>
        /\ (~ValidJson(ReadArgs.value[2]) \/ ~ValidJson(ReadArgs.value[3])) =>
              /\ load_result.exc = "JSONDecodeError"
              /\ load_result.value = <<>>
              /\ cache_hits(cache, load_path) = {}
        /\ load_result.exc = "" =>
              /\ load_result.value.data = json_loads(ReadArgs.value[2]).value
              /\ load_result.value.layout = json_loads(ReadArgs.value[3]).value

\* a layout that is no JSON was read, while the other path is cached
C11_Witness ==
    /\ ArgsLocated
    /\ load_read = Some(DocBadLayout)
    /\ ValidJson(ReadArgs.value[2])
    /\ ~ValidJson(ReadArgs.value[3])
    /\ load_result.exc = "JSONDecodeError"
    /\ cache # <<>>

\* the start of a call with the target "x"
CallWithTarget == CallName \o <<"(", DQ, "x", DQ, ",", " ">>

\* t is a call with the target "x", then a JSON array, then a JSON object,
\* and anything behind them
ValidSeriesAndLayout(t) ==
    \E a \in 0..Len(t), b \in 0..Len(t) :
        /\ Len(CallWithTarget) < a /\ a + 2 < b
        /\ Slice(t, 0, Len(CallWithTarget)) = CallWithTarget
        /\ At(t, Len(CallWithTarget)) = "["
        /\ ValidJson(Slice(t, Len(CallWithTarget), a))
        /\ Slice(t, a, a + 2) = <<",", " ">>
        /\ At(t, a + 2) = "{"
        /\ ValidJson(Slice(t, a + 2, b))

\* C12: when the series and the layout of the document read are valid, load
\* returns a record whatever stands behind them as options, and the record
\* has an options field only when the options decode to an object.
C12_OptionsNeverFail ==
    (LoadRead /\ ValidSeriesAndLayout(load_read[1])) =>
        /\ load_result.exc = ""
        /\ "config" \in DOMAIN load_result.value =>
              load_result.value.config.type = "dict"

\* record has a JSON array as series, a JSON object as layout, a JSON object
\* as options if it has options, and no other field
WellShaped(record) ==
    /\ DOMAIN record \in {{"data", "layout"}, {"data", "layout", "config"}}
    /\ record.data.type = "list"
    /\ record.layout.type = "dict"
    /\ "config" \in DOMAIN record => record.config.type = "dict"

\* C13: every record load returns and every record in the cache has an array
\* as series, an object as layout and no field beyond these and the options;
\* a record built from a file has options only if the options substring of
\* that file decodes to an object, which is then the field.
C13_RecordShape ==
    mode = "load" =>
        /\ \A n \in 1..Len(cache) : WellShaped(cache[n].result)
        /\ load_result.exc = "" => WellShaped(load_result.value)
        /\ (ArgsLocated /\ load_result.exc = ""
                /\ "config" \in DOMAIN load_result.value) =>
              /\ ReadArgs.value[4] # None
              /\ ValidJson(ReadArgs.value[4][1])
              /\ json_loads(ReadArgs.value[4][1]).value.type = "dict"
              /\ load_result.value.config = json_loads(ReadArgs.value[4][1]).value

\* options that do not decode were read and left out, while the cache holds
\* a record with options
C13_Witness ==
    /\ ArgsLocated
    /\ load_read = Some(DocBadOptions)
    /\ load_result.exc = ""
    /\ DOMAIN load_result.value = {"data", "layout"}
    /\ Len(cache) = 2
    /\ \E n \in 1..Len(cache) : "config" \in DOMAIN cache[n].result

\* the outcome r is a failure to parse a document that was read
ParseFailed(r) == r.exc \in {"ValueError", "JSONDecodeError"}

\* C14 as claimed: once a call for the followed path has returned a record,
\* every later call for it returns that record and reads no file, however
\* the file was changed and however many other paths were called in between.
C14_SameRecordForever ==
    [][(history[Target].result.exc = "" /\ Load(Target)) =>
          /\ load_result' = history[Target].result
          /\ load_read' = None]_vars

\* C14 as amended: the same, provided fewer than maxsize other paths were
\* called since the last call for the followed path.
C14_SameRecordWhileCached ==
    [][(/\ history[Target].result.exc = ""
        /\ Cardinality(history[Target].others) < maxsize
        /\ Load(Target)) =>
          /\ load_result' = history[Target].result
          /\ load_read' = None]_vars

\* the record of a file that no longer parses is returned again without a
\* read, after maxsize - 1 other paths were called in between
C14_Witness ==
    /\ mode = "load"
    /\ load_path = Target
    /\ load_read = None
    /\ load_result.exc = ""
    /\ history[Target].prev = load_result
    /\ files[Target] = Some(DocBadSeries)
    /\ Len(cache) = maxsize

----------------------------------------------------------------------------
\* C15 as claimed: once a call for the followed path has failed to parse a
\* document, the next call for it fails as well, whatever the file holds by
\* then.
C15_FailureIsPermanent ==
    (DOMAIN history = {Target} /\ ParseFailed(history[Target].prev)) =>
        history[Target].result.exc # ""

\* C15 as amended: after a call for the followed path that failed to parse a
\* document, the next call for it reads the file again; it fails as well
\* when the file holds a document that does not parse or there is no file,
\* and returns the record of the document when the file holds one that
\* parses.
C15_FailureRetried ==
    (/\ DOMAIN history = {Target}
     /\ ParseFailed(history[Target].prev)
     /\ load_path = Target) =>
        /\ load_result = history[Target].result
        /\ load_read = Some(DocBadSeries) => load_result.exc = "JSONDecodeError"
        /\ load_read = None => load_result.exc = "FileNotFoundError"
        /\ load_read \in {Some(DocThree), Some(DocFour)} =>
              /\ load_result.exc = ""
              /\ load_result.value.data = json_loads(ReadArgs.value[2]).value
              /\ load_result.value.layout = json_loads(ReadArgs.value[3]).value

\* a file that failed to parse was replaced and the next call returned
C15_Witness ==
    /\ DOMAIN history = {Target}
    /\ history[Target].prev.exc = "JSONDecodeError"
    /\ load_path = Target
    /\ load_read = Some(DocThree)
    /\ load_result.exc = ""
    /\ cache_hits(cache, Target) # {}

----------------------------------------------------------------------------
(* The functions of the catalog called on file systems that hold the files  *)
(* of two entries, each in docs/plots, elsewhere under the root, or         *)
(* nowhere, and whose documents are replaced.                               *)

\* documents whose layout has a title string, a title object with a text,
\* a title object whose text is a number, and no title
DocTitleString == <<"P", "l", "o", "t", "l", "y", ".", "n", "e", "w", "P", "l", "o", "t", "(", "\"", "x", "\"", ",", " ", "[", "]", ",", " ", "{", "\"", "t", "i", "t", "l", "e", "\"", ":", "\"", " ", "T", " ", "\"", "}", ")">>
DocTitleObject == <<"P", "l", "o", "t", "l", "y", ".", "n", "e", "w", "P", "l", "o", "t", "(", "\"", "x", "\"", ",", " ", "[", "]", ",", " ", "{", "\"", "t", "i", "t", "l", "e", "\"", ":", "{", "\"", "t", "e", "x", "t", "\"", ":", "\"", "U", "\"", "}", "}", ")">>
DocTitleNumber == <<"P", "l", "o", "t", "l", "y", ".", "n", "e", "w", "P", "l", "o", "t", "(", "\"", "x", "\"", ",", " ", "[", "]", ",", " ", "{", "\"", "t", "i", "t", "l", "e", "\"", ":", "{", "\"", "t", "e", "x", "t", "\"", ":", "5", "}", "}", ")">>
DocNoTitle == <<"P", "l", "o", "t", "l", "y", ".", "n", "e", "w", "P", "l", "o", "t", "(", "\"", "x", "\"", ",", " ", "[", "]", ",", " ", "{", "}", ")">>

CatalogDocs == {DocTitleString, DocTitleObject, DocTitleNumber, DocNoTitle, DocBadSeries}

\* the entries whose files the file systems hold, and where
FiledEntries == {1, 4}
CatalogDirs == {plots_dir, <<"data">>}

CatalogPaths ==
    {[dir |-> d, name |-> PLOT_ENTRIES[n].filename] : d \in CatalogDirs, n \in FiledEntries}

\* where the file of an entry is and what it holds, or None
Placements == {None} \cup {Some([dir |-> d, doc |-> x]) : d \in CatalogDirs, x \in CatalogDocs}

\* the file system with the file of each entry placed as place tells
PlacedFiles(place) ==
    [q \in {PathString(path) : path \in CatalogPaths} |->
        IF \E n \in FiledEntries :
              /\ place[n] # None
              /\ PathString([dir |-> place[n][1].dir, name |-> PLOT_ENTRIES[n].filename]) = q
        THEN Some(place[CHOOSE n \in FiledEntries :
                            /\ place[n] # None
                            /\ PathString([dir |-> place[n][1].dir,
                                           name |-> PLOT_ENTRIES[n].filename]) = q][1].doc)
        ELSE None]

\* the keys get_figure_json is called with: those of the two entries, one of
\* an entry without a file, one that is not in the catalog
Keys == {PLOT_ENTRIES[1].key, PLOT_ENTRIES[4].key, PLOT_ENTRIES[8].key, "nonexistent-key"}

InitCatalog ==
    /\ mode = "catalog"
    /\ pc = "ready"
    /\ \E place \in [FiledEntries -> Placements] : files = PlacedFiles(place)
    /\ cache = <<>>
    /\ history = <<>>
    /\ called = NoCall
    /\ call_result = NoResult
    /\ load_path = ""
    /\ load_read = None
    /\ load_result = NoResult
    /\ s = <<>>
    /\ open_char = ""
    /\ close_char = ""
    /\ start_index = 0
    /\ scan_result = NoResult
    /\ parts = <<>>
    /\ script_text = <<>>
    /\ locate_result = NoResult

\* the state after a function of the catalog ended as o tells
Ended(op, arg, o) ==
    /\ called' = [op |-> op, arg |-> arg, loads |-> o.loads]
    /\ call_result' = o.result
    /\ cache' = o.cache
    /\ UNCHANGED <<mode, pc, files, load_path, load_read, load_result, history,
                   scan_vars, locate_vars>>

\* a call list_plots()
List ==
    /\ mode = "catalog"
    /\ \E o \in list_plots(files, cache) : Ended("list_plots", <<>>, o)

\* a call get_figure_json(key)
GetOne(key) ==
    /\ mode = "catalog"
    /\ \E o \in get_figure_json(files, cache, key) : Ended("get_figure_json", key, o)

\* a call get_all_figures_json()
GetAll ==
    /\ mode = "catalog"
    /\ \E o \in get_all_figures_json(files, cache) : Ended("get_all_figures_json", <<>>, o)

\* the document of the file at path is replaced; what the last call gave
\* was said of the files as they were, and is dropped
Rewrite(path, doc) ==
    /\ mode = "catalog"
    /\ files[path] \notin {None, Some(doc)}
    /\ files' = [files EXCEPT ![path] = Some(doc)]
    /\ called' = NoCall
    /\ call_result' = NoResult
    /\ UNCHANGED <<mode, pc, cache, load_path, load_read, load_result, history,
                   scan_vars, locate_vars>>

NextCatalog ==
    \/ List
    \/ \E key \in Keys : GetOne(key)
    \/ GetAll
    \/ \E path \in CatalogPaths, doc \in CatalogDocs : Rewrite(PathString(path), doc)

SpecCatalog == InitCatalog /\ [][NextCatalog]_vars

----------------------------------------------------------------------------
(* The loader run on documents written from values: a call whose second and *)
(* third arguments are the serialisations of a JSON array and a JSON object.*)

\* the longest string among the values
MaxString == 2

\* the characters of the strings among the values
RoundAlphabet == {",", "[", "]", "{", "}", "(", ")", DQ, SQ, BS}

\* the characters of a string as a JSON string literal holds them
RECURSIVE escaped(_)
escaped(text) ==
    IF text = <<>> THEN <<>>
    ELSE (CASE text[1] = DQ -> <<BS, DQ>>
            [] text[1] = BS -> <<BS, BS>>
            [] text[1] = "\n" -> <<BS, "n">>
            [] OTHER -> <<text[1]>>) \o escaped(Tail(text))

\* the serialisation of a value, with ", " between the items and ": "
\* between a key and its value
RECURSIVE json_dumps(_)
RECURSIVE dumps_items(_)
RECURSIVE dumps_pairs(_)
dumps_items(values) ==
    IF values = <<>> THEN <<>>
    ELSE json_dumps(values[1])
         \o (IF Len(values) > 1 THEN <<",", " ">> ELSE <<>>) \o dumps_items(Tail(values))
dumps_pairs(pairs) ==
    IF pairs = <<>> THEN <<>>
    ELSE <<DQ>> \o escaped(pairs[1].key) \o <<DQ, ":", " ">> \o json_dumps(pairs[1].value)
         \o (IF Len(pairs) > 1 THEN <<",", " ">> ELSE <<>>) \o dumps_pairs(Tail(pairs))
json_dumps(v) ==
    IF v.type = "str" THEN <<DQ>> \o escaped(v.items) \o <<DQ>>
    ELSE IF v.type = "list" THEN <<"[">> \o dumps_items(v.items) \o <<"]">>
    ELSE IF v.type = "dict" THEN <<"{">> \o dumps_pairs(v.items) \o <<"}">>
    ELSE v.items

\* the strings among the values
RoundStrings == {JValue("str", x) : x \in TextsUpTo(RoundAlphabet, MaxString)}

\* the arrays: empty, of one string, and of a string, an array and an object
\* that holds the string again
RoundSeries ==
    {JValue("list", <<>>)}
    \cup {JValue("list", <<x>>) : x \in RoundStrings}
    \cup {JValue("list", <<x, JValue("list", <<JValue("int", <<"1">>)>>),
                           JValue("dict", <<[key |-> <<"k">>, value |-> x]>>)>>) :
            x \in RoundStrings}

\* the objects: empty, of one string under a key, of an array of a string
\* under the string as key, and one of nested objects
RoundLayouts ==
    {JValue("dict", <<>>),
     JValue("dict", <<[key |-> <<"a">>,
                       value |-> JValue("dict", <<[key |-> <<"b">>,
                                                   value |-> JValue("NoneType", <<"n", "u", "l", "l">>)]>>)],
                      [key |-> <<"c">>, value |-> JValue("bool", <<"t", "r", "u", "e">>)]>>)}
    \cup {JValue("dict", <<[key |-> <<"k">>, value |-> JValue("str", <<ch>>)]>>) :
            ch \in RoundAlphabet}
    \cup {JValue("dict", <<[key |-> <<ch>>, value |-> JValue("list", <<JValue("str", <<ch>>)>>)]>>) :
            ch \in RoundAlphabet}

\* the document callName("id", <series>, <layout>)
RoundDoc(series, layout) ==
    CallName \o <<"(", DQ, "i", "d", DQ, ",", " ">> \o json_dumps(series)
    \o <<",", " ">> \o json_dumps(layout) \o <<")">>

InitRound ==
    /\ mode = "load"
    /\ pc = "ready"
    /\ \E series \in RoundSeries, layout \in RoundLayouts :
          /\ called = [op |-> "round_trip", arg |-> <<series, layout>>, loads |-> <<>>]
          /\ files = [p \in {Target} |-> Some(RoundDoc(series, layout))]
    /\ cache = <<>>
    /\ history = <<>>
    /\ call_result = NoResult
    /\ load_path = ""
    /\ load_read = None
    /\ load_result = NoResult
    /\ s = <<>>
    /\ open_char = ""
    /\ close_char = ""
    /\ start_index = 0
    /\ scan_result = NoResult
    /\ parts = <<>>
    /\ script_text = <<>>
    /\ locate_result = NoResult

NextRound == Load(Target)

SpecRound == InitRound /\ [][NextRound]_vars

----------------------------------------------------------------------------
(* Two callers of load_plot_json_from_html on the same path.  A call goes   *)
(* through the wrapper in steps: the lookup, the call of the function on a  *)
(* miss, and the store, before which the wrapper looks the key up again;    *)
(* the steps of the two callers interleave.                                 *)

Callers == {1, 2}

\* the record DocPlain loads to
PlainRecord == [data |-> JValue("list", <<>>), layout |-> JValue("dict", <<>>)]

\* the cache that holds the first n of the other paths
RECURSIVE FilledCache(_)
FilledCache(n) ==
    IF n = 0 THEN <<>>
    ELSE Append(FilledCache(n - 1), [key |-> Filler(n), result |-> PlainRecord])

\* the cache before the calls: empty, with one entry, full
RaceCaches == {FilledCache(0), FilledCache(1), FilledCache(maxsize)}

InitRace ==
    /\ mode = "race"
    /\ pc = [c \in Callers |-> "ready"]
    /\ \E content \in FileStates : files = [p \in {Target} |-> content]
    /\ cache \in RaceCaches
    /\ history = cache
    /\ called = [op |-> "load_plot_json_from_html", arg |-> Target, loads |-> <<>>]
    /\ call_result = [c \in Callers |-> NoResult]
    /\ load_path = ""
    /\ load_read = None
    /\ load_result = NoResult
    /\ s = <<>>
    /\ open_char = ""
    /\ close_char = ""
    /\ start_index = 0
    /\ scan_result = NoResult
    /\ parts = <<>>
    /\ script_text = <<>>
    /\ locate_result = NoResult

\* mutant of store_if_absent: the result is stored without a second lookup
store_unchecked(c, path, result) == cache_store(c, path, result)

\* the cache after the function returned result for path: the wrapper stores
\* it unless the key was added while the function ran
store_if_absent(c, path, result) ==
    IF cache_hits(c, path) # {} THEN c ELSE cache_store(c, path, result)

\* the lookup of caller c: a hit returns the cached record
Lookup(c) ==
    /\ mode = "race"
    /\ pc[c] = "ready"
    /\ IF cache_hits(cache, Target) # {}
       THEN /\ call_result' = [call_result EXCEPT ![c] =
                   Return(cache[CHOOSE n \in cache_hits(cache, Target) : TRUE].result)]
            /\ cache' = cache_touch(cache, CHOOSE n \in cache_hits(cache, Target) : TRUE)
            /\ pc' = [pc EXCEPT ![c] = "done"]
       ELSE /\ pc' = [pc EXCEPT ![c] = "missed"]
            /\ UNCHANGED <<call_result, cache>>
    /\ UNCHANGED <<mode, files, called, history, load_path, load_read, load_result,
                   scan_vars, locate_vars>>

\* what caller c has after the function ended as r tells: an exception
\* leaves the wrapper at once
Ran(c, r) ==
    /\ call_result' = [call_result EXCEPT ![c] = r]
    /\ pc' = [pc EXCEPT ![c] = IF r.exc # "" THEN "done" ELSE "returned"]
    /\ called' = [called EXCEPT !.loads = Append(@, c)]

\* caller c, after a miss, runs the function
Run(c) ==
    /\ mode = "race"
    /\ pc[c] = "missed"
    /\ Ran(c, load_plot_json_from_html(Target, files))
    /\ UNCHANGED <<mode, files, cache, history, load_path, load_read, load_result,
                   scan_vars, locate_vars>>

\* caller c stores what the function returned and returns it
Store(c) ==
    /\ mode = "race"
    /\ pc[c] = "returned"
    /\ cache' = store_if_absent(cache, Target, call_result[c].value)
    /\ pc' = [pc EXCEPT ![c] = "done"]
    /\ UNCHANGED <<mode, files, called, call_result, history, load_path, load_read,
                   load_result, scan_vars, locate_vars>>

NextRace == \E c \in Callers : Lookup(c) \/ Run(c) \/ Store(c)

SpecRace == InitRace /\ [][NextRace]_vars

----------------------------------------------------------------------------
(* tools/rebuild_clean_html.py: extract_plot_components, the template and   *)
(* rebuild_html_file.                                                       *)

\* the characters of a string, as a tuple
Chars(str) == <<>> \o [k \in 1..Len(str) |-> SubSeq(str, k, k)]

\* str.find(sub, from)
str_find(t, sub, from) ==
    LET hits == {k \in from..(Len(t) - Len(sub)) : Slice(t, k, k + Len(sub)) = sub}
    IN  IF hits = {} THEN -1 ELSE CHOOSE k \in hits : \A k2 \in hits : k <= k2

\* lines 12-135: the text get_responsive_html_template returns
responsive_html_template ==
    Chars("<html>\n")
    \o Chars("<head>\n")
    \o Chars("  <meta charset=\"utf-8\" />\n")
    \o Chars("  <style>\n")
    \o Chars("    /* Responsive styling for standalone plots */\n")
    \o Chars("    html, body {\n")
    \o Chars("      margin: 0;\n")
    \o Chars("      padding: 0;\n")
    \o Chars("      width: 100%;\n")
    \o Chars("      height: 100%;\n")
    \o Chars("      font-family: Arial, sans-serif;\n")
    \o Chars("    }\n")
    \o Chars("    .plotly-graph-div {\n")
    \o Chars("      width: 100% !important;\n")
    \o Chars("      height: 100vh !important;\n")
    \o Chars("    }\n")
    \o Chars("  </style>\n")
    \o Chars("</head>\n")
    \o Chars("<body>\n")
    \o Chars("    <div>\n")
    \o Chars("        <script type=\"text/javascript\">window.PlotlyConfig = {MathJaxConfig: 'local'};</script>\n")
    \o Chars("        <script charset=\"utf-8\" src=\"https://cdn.plot.ly/plotly-2.35.2.min.js\"></script>\n")
    \o Chars("        <div id=\"{plot_id}\" class=\"plotly-graph-div\"></div>\n")
    \o Chars("        <script type=\"text/javascript\">\n")
    \o Chars("            window.PLOTLYENV = window.PLOTLYENV || {};\n")
    \o Chars("            if (document.getElementById(\"{plot_id}\")) {\n")
    \o Chars("                Plotly.newPlot(\n")
    \o Chars("                    \"{plot_id}\",\n")
    \o Chars("                    {plot_data},\n")
    \o Chars("                    {plot_layout},\n")
    \o Chars("                    {{\"responsive\": true}}\n")
    \o Chars("                );\n")
    \o Chars("                \n")
    \o Chars("                // Make plot responsive after creation\n")
    \o Chars("                setTimeout(function() {\n")
    \o Chars("                    if (window.Plotly && window.ResizeObserver) {\n")
    \o Chars("                        const plotDiv = document.querySelector('.plotly-graph-div');\n")
    \o Chars("                        if (plotDiv) {\n")
    \o Chars("                            // Remove any fixed dimensions from layout\n")
    \o Chars("                            if (plotDiv._fullLayout) {\n")
    \o Chars("                                delete plotDiv._fullLayout.width;\n")
    \o Chars("                                delete plotDiv._fullLayout.height;\n")
    \o Chars("                                plotDiv._fullLayout.autosize = true;\n")
    \o Chars("                            }\n")
    \o Chars("                            \n")
    \o Chars("                            // Function to post height to parent\n")
    \o Chars("                            function postHeightToParent() {\n")
    \o Chars("                                try {\n")
    \o Chars("                                    const height = Math.max(\n")
    \o Chars("                                        document.body.scrollHeight,\n")
    \o Chars("                                        document.body.offsetHeight,\n")
    \o Chars("                                        document.documentElement.clientHeight,\n")
    \o Chars("                                        document.documentElement.scrollHeight,\n")
    \o Chars("                                        document.documentElement.offsetHeight\n")
    \o Chars("                                    );\n")
    \o Chars("                                    window.parent.postMessage({{\n")
    \o Chars("                                        type: 'plot:height',\n")
    \o Chars("                                        height: height\n")
    \o Chars("                                    }}, '*');\n")
    \o Chars("                                } catch (e) {{\n")
    \o Chars("                                    // Silent fail for standalone use\n")
    \o Chars("                                }}\n")
    \o Chars("                            }}\n")
    \o Chars("                            \n")
    \o Chars("                            // Set up resize observer\n")
    \o Chars("                            const resizeObserver = new ResizeObserver(() => {{\n")
    \o Chars("                                clearTimeout(plotDiv._resizeTimeout);\n")
    \o Chars("                                plotDiv._resizeTimeout = setTimeout(() => {{\n")
    \o Chars("                                    try {{\n")
    \o Chars("                                        window.Plotly.Plots.resize(plotDiv);\n")
    \o Chars("                                        postHeightToParent();\n")
    \o Chars("                                    }} catch (e) {{\n")
    \o Chars("                                        console.warn('Error resizing plot:', e);\n")
    \o Chars("                                    }}\n")
    \o Chars("                                }}, 50);\n")
    \o Chars("                            }});\n")
    \o Chars("                            \n")
    \o Chars("                            resizeObserver.observe(document.body);\n")
    \o Chars("                            \n")
    \o Chars("                            // Listen for window resize\n")
    \o Chars("                            window.addEventListener('resize', () => {{\n")
    \o Chars("                                clearTimeout(plotDiv._resizeTimeout);\n")
    \o Chars("                                plotDiv._resizeTimeout = setTimeout(() => {{\n")
    \o Chars("                                    try {{\n")
    \o Chars("                                        window.Plotly.Plots.resize(plotDiv);\n")
    \o Chars("                                        postHeightToParent();\n")
    \o Chars("                                    }} catch (e) {{\n")
    \o Chars("                                        console.warn('Error resizing plot:', e);\n")
    \o Chars("                                    }}\n")
    \o Chars("                                }}, 100);\n")
    \o Chars("                            }});\n")
    \o Chars("                            \n")
    \o Chars("                            // Listen for pane resize messages from parent\n")
    \o Chars("                            window.addEventListener('message', (event) => {{\n")
    \o Chars("                                if (event.data && event.data.type === 'pane:resized') {{\n")
    \o Chars("                                    clearTimeout(plotDiv._resizeTimeout);\n")
    \o Chars("                                    plotDiv._resizeTimeout = setTimeout(() => {{\n")
    \o Chars("                                        try {{\n")
    \o Chars("                                            window.Plotly.Plots.resize(plotDiv);\n")
    \o Chars("                                            postHeightToParent();\n")
    \o Chars("                                        }} catch (e) {{\n")
    \o Chars("                                            console.warn('Error resizing plot:', e);\n")
    \o Chars("                                        }}\n")
    \o Chars("                                    }}, 100);\n")
    \o Chars("                                }}\n")
    \o Chars("                            }});\n")
    \o Chars("                            \n")
    \o Chars("                            // Initial resize and height post\n")
    \o Chars("                            setTimeout(() => {{\n")
    \o Chars("                                try {{\n")
    \o Chars("                                    window.Plotly.Plots.resize(plotDiv);\n")
    \o Chars("                                    postHeightToParent();\n")
    \o Chars("                                }} catch (e) {{\n")
    \o Chars("                                    console.warn('Error with initial resize:', e);\n")
    \o Chars("                                }}\n")
    \o Chars("                            }}, 100);\n")
    \o Chars("                        }}\n")
    \o Chars("                    }}\n")
    \o Chars("                }}, 500);\n")
    \o Chars("            }}\n")
    \o Chars("        </script>\n")
    \o Chars("    </div>\n")
    \o Chars("</body>\n")
    \o Chars("</html>")

\* line 140: the text in front of the group of plot_id_pattern
element_id_prefix == Chars("document.getElementById(\"")

\* the index of the quote that ends a match of plot_id_pattern that starts
\* at index k, or -1: after the prefix come one or more characters that are
\* no quote, a quote and a closing parenthesis
element_id_end(t, k) ==
    IF /\ Slice(t, k, k + Len(element_id_prefix)) = element_id_prefix
       /\ find(t, DQ, k + Len(element_id_prefix)) > k + Len(element_id_prefix)
       /\ CharAt(t, find(t, DQ, k + Len(element_id_prefix)) + 1) = ")"
    THEN find(t, DQ, k + Len(element_id_prefix))
    ELSE -1

\* lines 140-142: the group of the first match of plot_id_pattern, or "plot"
element_id(t) ==
    LET hits == {k \in 0..(Len(t) - 1) : element_id_end(t, k) # -1}
        first == CHOOSE k \in hits : \A k2 \in hits : k <= k2
    IN  IF hits = {} THEN Chars("plot")
        ELSE Slice(t, first + Len(element_id_prefix), element_id_end(t, first))

\* lines 156-161: the loop that counts parentheses; <<bracket_count, pos>>
\* when it ends
RECURSIVE paren_loop(_, _, _)
paren_loop(t, bracket_count, pos) ==
    IF bracket_count > 0 /\ pos < Len(t)
    THEN paren_loop(t,
                    IF At(t, pos) = "(" THEN bracket_count + 1
                    ELSE IF At(t, pos) = ")" THEN bracket_count - 1
                    ELSE bracket_count,
                    pos + 1)
    ELSE <<bracket_count, pos>>

\* lines 177-180: bracket_depth after the first k characters of params_str
bracket_depth(params_str, k) ==
    Cardinality({j \in 1..k : params_str[j] = "["})
    - Cardinality({j \in 1..k : params_str[j] = "]"})

\* lines 181-184: brace_depth after the first k characters of params_str
brace_depth(params_str, k) ==
    Cardinality({j \in 1..k : params_str[j] = "{"})
    - Cardinality({j \in 1..k : params_str[j] = "}"})

\* line 185: the k-th character ends a parameter
splits_at(params_str, k) ==
    /\ params_str[k] = ","
    /\ bracket_depth(params_str, k - 1) = 0
    /\ brace_depth(params_str, k - 1) = 0

\* the places of the characters that end a parameter
split_points(params_str) == {k \in 1..Len(params_str) : splits_at(params_str, k)}

\* the place of the i-th of them, 0 for i = 0
split_point(params_str, i) ==
    IF i = 0 THEN 0
    ELSE CHOOSE k \in split_points(params_str) :
            Cardinality({k2 \in split_points(params_str) : k2 < k}) = i - 1

\* lines 176-189: params when the loop over params_str has ended
loop_params(params_str) ==
    <<>> \o [i \in 1..Cardinality(split_points(params_str)) |->
                strip(SubSeq(params_str, split_point(params_str, i - 1) + 1,
                             split_point(params_str, i) - 1))]

\* lines 176-189: current_param when the loop over params_str has ended
loop_current_param(params_str) ==
    SubSeq(params_str,
           split_point(params_str, Cardinality(split_points(params_str))) + 1,
           Len(params_str))

\* lines 176-192: the parameters, with what is left after the last comma
split_params(params_str) ==
    IF strip(loop_current_param(params_str)) # <<>>
    THEN Append(loop_params(params_str), strip(loop_current_param(params_str)))
    ELSE loop_params(params_str)

\* lines 198-201: the plot id, taken from the first parameter when it is in
\* double quotes
plot_id_from(plot_id_param, plot_id) ==
    IF plot_id_param # <<>> /\ Head(plot_id_param) = DQ /\ plot_id_param[Len(plot_id_param)] = DQ
    THEN Slice(plot_id_param, 1, Len(plot_id_param) - 1)
    ELSE plot_id

\* lines 194-210: the components, given the parameters
components_from(params, plot_id) ==
    IF Len(params) < 3 THEN None
    ELSE Some([plot_id |-> plot_id_from(strip(params[1]), plot_id),
               plot_data |-> strip(params[2]),
               plot_layout |-> strip(params[3])])

\* lines 163-210, given what the loop that counts parentheses ended with
components_in(content, start_pos, counted, plot_id) ==
    IF counted[1] # 0 THEN None
    ELSE components_from(
            split_params(strip(Slice(content, start_pos, counted[2] - 1))),
            plot_id)

\* lines 152-210, given newplot_start
components_at(content, newplot_start, plot_id) ==
    components_in(content, find(content, "(", newplot_start) + 1,
                  paren_loop(content, 1, find(content, "(", newplot_start) + 1), plot_id)

\* extract_plot_components(content): None, or Some of the components
extract_plot_components(content) ==
    IF str_find(content, CallName \o <<"(">>, 0) = -1 THEN None
    ELSE components_at(content, str_find(content, CallName \o <<"(">>, 0),
                       element_id(content))

RECURSIVE next_brace(_, _)

\* the index of the first brace of t at or after k, Len(t) when there is
\* none: the parser of str.format copies the text between braces unread
next_brace(t, k) ==
    IF k >= Len(t) THEN Len(t)
    ELSE IF {j \in k..(k + 63) : j < Len(t) /\ At(t, j) \in {"{", "}"}} = {}
    THEN next_brace(t, k + 64)
    ELSE CHOOSE j \in {j2 \in k..(k + 63) : j2 < Len(t) /\ At(t, j2) \in {"{", "}"}} :
            \A j3 \in {j2 \in k..(k + 63) : j2 < Len(t) /\ At(t, j2) \in {"{", "}"}} : j <= j3

RECURSIVE field_end(_, _, _)

\* the index of the brace that closes the replacement field opened just in
\* front of k, counting the braces nested in it, -1 when the text ends first
field_end(t, k, depth) ==
    IF next_brace(t, k) >= Len(t) THEN -1
    ELSE IF At(t, next_brace(t, k)) = "{" THEN field_end(t, next_brace(t, k) + 1, depth + 1)
    ELSE IF depth = 1 THEN next_brace(t, k)
    ELSE field_end(t, next_brace(t, k) + 1, depth - 1)

\* the name of the argument a replacement field asks for: the field up to
\* the first of ! : . [
arg_name(field) ==
    LET stops == {k \in 1..Len(field) : field[k] \in {"!", ":", ".", "["}}
    IN  IF stops = {} THEN field
        ELSE SubSeq(field, 1, (CHOOSE k \in stops : \A k2 \in stops : k <= k2) - 1)

RECURSIVE format_from(_, _, _, _)

\* str.format on the replacement field t[k..e] with keyword arguments only:
\* an empty or numbered name asks for a positional argument, an unknown name
\* raises KeyError; the fields of the template that name an argument are
\* plain names
format_field(t, k, e, kwargs, out) ==
    IF arg_name(Slice(t, k + 1, e)) = <<>>
       \/ \A j \in 1..Len(arg_name(Slice(t, k + 1, e))) : arg_name(Slice(t, k + 1, e))[j] \in Digits
    THEN [exc |-> "IndexError", msg |-> "", value |-> arg_name(Slice(t, k + 1, e))]
    ELSE IF arg_name(Slice(t, k + 1, e)) \notin DOMAIN kwargs
    THEN [exc |-> "KeyError", msg |-> "", value |-> arg_name(Slice(t, k + 1, e))]
    ELSE format_from(t, e + 1, kwargs, out \o kwargs[arg_name(Slice(t, k + 1, e))])

\* str.format from index k on, out the text written so far; b is the next
\* brace
format_at(t, k, b, kwargs, out) ==
    IF b >= Len(t) THEN Return(out \o Slice(t, k, Len(t)))
    ELSE IF At(t, b) = "{"
    THEN IF CharAt(t, b + 1) = "{"
         THEN format_from(t, b + 2, kwargs, out \o Slice(t, k, b) \o <<"{">>)
         ELSE IF field_end(t, b + 1, 1) = -1
         THEN Raise("ValueError", "expected '}' before end of string")
         ELSE format_field(t, b, field_end(t, b + 1, 1), kwargs, out \o Slice(t, k, b))
    ELSE IF CharAt(t, b + 1) = "}"
    THEN format_from(t, b + 2, kwargs, out \o Slice(t, k, b) \o <<"}">>)
    ELSE Raise("ValueError", "Single '}' encountered in format string")

format_from(t, k, kwargs, out) == format_at(t, k, next_brace(t, k), kwargs, out)

\* template.format(**components)
str_format(template, components) ==
    format_from(template, 0,
                [name \in {Chars("plot_id"), Chars("plot_data"), Chars("plot_layout")} |->
                    IF name = Chars("plot_id") THEN components.plot_id
                    ELSE IF name = Chars("plot_data") THEN components.plot_data
                    ELSE components.plot_layout],
                <<>>)

\* lines 227-232: the end of rebuild_html_file, given what format ended with
rebuild_written(fs, path, clean_html) ==
    IF clean_html.exc # "" THEN [result |-> Return(FALSE), files |-> fs]
    ELSE [result |-> Return(TRUE), files |-> [fs EXCEPT ![path] = Some(clean_html.value)]]

\* lines 218-232, given the components
rebuild_from(fs, path, components) ==
    IF components = None THEN [result |-> Return(FALSE), files |-> fs]
    ELSE rebuild_written(fs, path, str_format(responsive_html_template, components[1]))

\* rebuild_html_file(file_path) on the files fs: what it returns and the
\* files after it; a file that is not there makes read_text raise
rebuild_html_file(fs, path) ==
    IF fs[path] = None THEN [result |-> Return(FALSE), files |-> fs]
    ELSE rebuild_from(fs, path, extract_plot_components(fs[path][1]))

\* text in front of the call: none, or one that holds an element id
ToolPres == {<<>>, Chars("document.getElementById(\"q\");")}

\* the documents of the tools
ToolDocs ==
    [pre : ToolPres, head : Heads, target : Targets, sep1 : Sep1s,
     series : Serieses, sep2 : {Sep2}, layout : Layouts, options : Options,
     close : Closes, post : {<<>>}]

InitRebuild ==
    /\ mode = "rebuild"
    /\ pc = "ready"
    /\ parts \in ToolDocs \cup {NoParts}
    /\ files \in {[p \in {Target} |-> Some(TextOf(parts))]}
                 \cup (IF parts = NoParts THEN {[p \in {Target} |-> None]} ELSE {})
    /\ script_text = <<>>
    /\ locate_result = NoResult
    /\ cache = <<>>
    /\ history = <<>>
    /\ called = NoCall
    /\ call_result = NoResult
    /\ load_path = ""
    /\ load_read = None
    /\ load_result = NoResult
    /\ s = <<>>
    /\ open_char = ""
    /\ close_char = ""
    /\ start_index = 0
    /\ scan_result = NoResult

\* a call extract_plot_components(content) with the content of the file
ExtractComponents ==
    /\ mode = "rebuild"
    /\ pc = "ready"
    /\ files[Target] # None
    /\ called' = [op |-> "extract_plot_components", arg |-> files[Target][1], loads |-> <<>>]
    /\ call_result' = Return(extract_plot_components(files[Target][1]))
    /\ pc' = "done"
    /\ UNCHANGED <<mode, files, cache, load_path, load_read, load_result, history,
                   scan_vars, locate_vars>>

\* the state after rebuild_html_file ended as o tells; history keeps the
\* content the file had
Rebuilt(o) ==
    /\ called' = [op |-> "rebuild_html_file", arg |-> Target, loads |-> <<>>]
    /\ call_result' = o.result
    /\ files' = o.files
    /\ history' = files[Target]

\* a call rebuild_html_file(file_path)
Rebuild ==
    /\ mode = "rebuild"
    /\ pc = "ready"
    /\ Rebuilt(rebuild_html_file(files, Target))
    /\ pc' = "done"
    /\ UNCHANGED <<mode, cache, load_path, load_read, load_result, scan_vars, locate_vars>>

NextRebuild == ExtractComponents \/ Rebuild

SpecRebuild == InitRebuild /\ [][NextRebuild]_vars

----------------------------------------------------------------------------
(* The generator of the plot manifest, tools/generate_plot_manifest.py, on  *)
(* a directory of files.                                                    *)

Lowercase == Chars("abcdefghijklmnopqrstuvwxyz")

Uppercase == Chars("ABCDEFGHIJKLMNOPQRSTUVWXYZ")

\* the place of ch in seq
index_in(seq, ch) == CHOOSE k \in 1..Len(seq) : seq[k] = ch

\* ch.lower() and ch.upper()
lower(ch) ==
    IF \E k \in 1..Len(Uppercase) : Uppercase[k] = ch
    THEN Lowercase[index_in(Uppercase, ch)] ELSE ch

upper(ch) ==
    IF \E k \in 1..Len(Lowercase) : Lowercase[k] = ch
    THEN Uppercase[index_in(Lowercase, ch)] ELSE ch

is_cased(ch) ==
    \E k \in 1..Len(Lowercase) : Lowercase[k] = ch \/ Uppercase[k] = ch

\* str.lower()
str_lower(t) == <<>> \o [k \in 1..Len(t) |-> lower(t[k])]

\* str.title(): a cased character is upper case after an uncased one and at
\* the start, lower case after a cased one
str_title(t) ==
    <<>> \o [k \in 1..Len(t) |->
                IF k > 1 /\ is_cased(t[k - 1]) THEN lower(t[k]) ELSE upper(t[k])]

\* str.replace(old, new) from index from on: every occurrence of old, from
\* the left
RECURSIVE replace_from(_, _, _, _)
replace_from(t, old, new, from) ==
    IF str_find(t, old, from) = -1 THEN Slice(t, from, Len(t))
    ELSE Slice(t, from, str_find(t, old, from)) \o new
         \o replace_from(t, old, new, str_find(t, old, from) + Len(old))

\* str.replace(old, new)
str_replace(t, old, new) == replace_from(t, old, new, 0)

\* line 21: re.sub(r'[-_.]+', ' ', name), a run of separators becomes one
\* space
RECURSIVE sub_separators(_)
sub_separators(t) ==
    IF t = <<>> THEN <<>>
    ELSE IF Head(t) \notin {"-", "_", "."} THEN <<Head(t)>> \o sub_separators(Tail(t))
    ELSE IF Len(t) > 1 /\ t[2] \in {"-", "_", "."} THEN sub_separators(Tail(t))
    ELSE <<" ">> \o sub_separators(Tail(t))

\* lines 16-23
title_from_filename(filename) ==
    str_title(sub_separators(str_replace(filename, Chars(".html"), <<>>)))

\* the keys the patterns of lines 32 and 37 look for
title_key == Chars("\"title\":")

text_key == Chars("\"text\":")

\* "([^"]+)" at index k: the index of the closing quote, or -1
quoted_group_end(t, k) ==
    IF CharAt(t, k) = DQ /\ find(t, DQ, k + 1) > k + 1 THEN find(t, DQ, k + 1) ELSE -1

\* the group of a match, given the index of the quote that opens it
quoted_group(t, k) ==
    IF quoted_group_end(t, k) = -1 THEN None
    ELSE Some(Slice(t, k + 1, quoted_group_end(t, k)))

\* line 37: the group of a match of "title":\s*"([^"]+)" at index k, or None
plain_title_at(t, k) ==
    IF Slice(t, k, k + Len(title_key)) # title_key THEN None
    ELSE quoted_group(t, skip_whitespace(t, k + Len(title_key)))

\* the rest of the pattern of line 32 from the index k of "text": on
nested_text_at(t, k) ==
    IF Slice(t, k, k + Len(text_key)) # text_key THEN None
    ELSE IF quoted_group_end(t, skip_whitespace(t, k + Len(text_key))) = -1 THEN None
    ELSE IF CharAt(t, skip_whitespace(t,
                quoted_group_end(t, skip_whitespace(t, k + Len(text_key))) + 1)) # "}"
    THEN None
    ELSE quoted_group(t, skip_whitespace(t, k + Len(text_key)))

\* line 32: the group of a match of "title":\s*\{\s*"text":\s*"([^"]+)"\s*\}
\* at index k, or None
nested_title_at(t, k) ==
    IF Slice(t, k, k + Len(title_key)) # title_key THEN None
    ELSE IF CharAt(t, skip_whitespace(t, k + Len(title_key))) # "{" THEN None
    ELSE nested_text_at(t, skip_whitespace(t, skip_whitespace(t, k + Len(title_key)) + 1))

\* line 32, re.search: the group of the leftmost match, or None
search_nested_title(t) ==
    LET hits == {k \in 0..(Len(t) - 1) : nested_title_at(t, k) # None}
    IN  IF hits = {} THEN None
        ELSE nested_title_at(t, CHOOSE k \in hits : \A k2 \in hits : k <= k2)

\* line 37, re.search: the group of the leftmost match, or None
search_plain_title(t) ==
    LET hits == {k \in 0..(Len(t) - 1) : plain_title_at(t, k) # None}
    IN  IF hits = {} THEN None
        ELSE plain_title_at(t, CHOOSE k \in hits : \A k2 \in hits : k <= k2)

\* mutant of extract_title_from_html: the plain form is looked for first
extract_title_plain_first(file) ==
    IF file = None THEN None
    ELSE IF search_plain_title(file[1]) # None
    THEN search_plain_title(file[1])
    ELSE search_nested_title(file[1])

\* lines 25-44: extract_title_from_html on a file; one that cannot be opened
\* gives None
extract_title_from_html(file) ==
    IF file = None THEN None
    ELSE IF search_nested_title(file[1]) # None
    THEN search_nested_title(file[1])
    ELSE search_plain_title(file[1])

\* the characters of file names, in the order of their codes
CodeOrder ==
    Chars(" -.0123456789ABCDEFGHIJKLMNOPQRSTUVWXYZ_abcdefghijklmnopqrstuvwxyz")

\* a < b for strings
str_less(a, b) ==
    \E k \in 1..Len(b) :
        /\ k <= Len(a) + 1
        /\ \A j \in 1..(k - 1) : a[j] = b[j]
        /\ k > Len(a) \/ index_in(CodeOrder, a[k]) < index_in(CodeOrder, b[k])

\* line 55: the names plots_path.glob('*.html') gives
glob_html(fs) ==
    {name \in DOMAIN fs :
        /\ fs[name] # None
        /\ Len(name) >= Len(".html")
        /\ SubSeq(name, Len(name) - Len(".html") + 1, Len(name)) = ".html"}

\* line 63: sorted(html_files)
sorted_names(names) ==
    <<>> \o [i \in 1..Cardinality(names) |->
                CHOOSE name \in names :
                    Cardinality({n2 \in names : str_less(Chars(n2), Chars(name))}) = i - 1]

\* lines 67-74: the title of an entry
chart_title(extracted_title, filename) ==
    IF extracted_title # None /\ extracted_title[1] # <<>> THEN extracted_title[1]
    ELSE title_from_filename(Chars(filename))

\* lines 76-81
chart_entry(fs, filename) ==
    [id |-> str_lower(str_replace(str_replace(Chars(filename), Chars(".html"), <<>>),
                                  <<" ">>, <<"-">>)),
     title |-> chart_title(extract_title_from_html(fs[filename]), filename),
     file |-> filename,
     type |-> "html"]

\* lines 62-89: the manifest of the files named
manifest_of(fs, names) ==
    [version |-> 1,
     basePath |-> "plots/",
     charts |-> <<>> \o [i \in 1..Cardinality(names) |->
                            chart_entry(fs, sorted_names(names)[i])]]

\* the file the manifest is written to
ManifestOut == "manifest.json"

\* the directory of the plots, and one that is not there
PlotsDir == "docs/plots"

MissingDir == "docs/none"

\* line 50: plots_path.exists()
dir_exists(dir) == dir = PlotsDir

\* lines 46-102: generate_manifest(dir, output_path) on the files fs of dir:
\* what it returns and the files after it
generate_manifest(fs, dir) ==
    IF ~dir_exists(dir) THEN [result |-> Return(None), files |-> fs]
    ELSE IF glob_html(fs) = {} THEN [result |-> Return(None), files |-> fs]
    ELSE [result |-> Return(Some(manifest_of(fs, glob_html(fs)))),
          files |-> [fs EXCEPT ![ManifestOut] = Some(manifest_of(fs, glob_html(fs)))]]

\* the names a directory of plots may hold
HtmlNames == {"b.html", "a b.html", "My_plot-1.html", "x.html.html"}

OtherNames == {"n.txt"}

\* what a file of the directory may hold
ManifestDocs ==
    {Chars("{\"title\": {\"text\": \"N t\"}}"),
     Chars("\"title\":\"P\""),
     Chars("\"title\":\"P\",\"title\":{ \"text\":\"N\" }"),
     Chars("\"title\":{\"text\":5}"),
     Chars("\"title\":\"\"")}

\* the directories: every file there or not, the manifest written before or
\* not
ManifestDirs ==
    {fs \in [HtmlNames \cup OtherNames \cup {ManifestOut} ->
                {None} \cup {Some(doc) : doc \in ManifestDocs}] :
        /\ fs[ManifestOut] \in {None, Some(Chars("\"title\":\"P\""))}
        /\ \A name \in OtherNames : fs[name] \in {None, Some(Chars("\"title\":\"P\""))}}

InitManifest ==
    /\ mode = "manifest"
    /\ pc = "ready"
    /\ load_path \in {PlotsDir, MissingDir}
    /\ files \in ManifestDirs
    /\ load_path = MissingDir =>
          \A name \in HtmlNames \cup OtherNames : files[name] = None
    /\ parts = NoParts
    /\ script_text = <<>>
    /\ locate_result = NoResult
    /\ cache = <<>>
    /\ history = <<>>
    /\ called = NoCall
    /\ call_result = NoResult
    /\ load_read = None
    /\ load_result = NoResult
    /\ s = <<>>
    /\ open_char = ""
    /\ close_char = ""
    /\ start_index = 0
    /\ scan_result = NoResult

\* the state after generate_manifest ended as o tells; history keeps what the
\* manifest file held
Generated(o) ==
    /\ called' = [op |-> "generate_manifest", arg |-> load_path, loads |-> <<>>]
    /\ call_result' = o.result
    /\ files' = o.files
    /\ history' = files[ManifestOut]

\* a call generate_manifest(plots_dir, output_path)
GenerateManifest ==
    /\ mode = "manifest"
    /\ pc = "ready"
    /\ Generated(generate_manifest(files, load_path))
    /\ pc' = "done"
    /\ UNCHANGED <<mode, cache, load_path, load_read, load_result, scan_vars, locate_vars>>

NextManifest == GenerateManifest

SpecManifest == InitManifest /\ [][NextManifest]_vars

----------------------------------------------------------------------------
(* The tool that adds the height messages to a plot file,                   *)
(* tools/add_postmessage_safely.py.                                         *)

\* lines 11-47: the text get_post_message_script returns
post_message_script ==
    Chars("\n")
    \o Chars("                    // Function to post height to parent\n")
    \o Chars("                    function postHeightToParent() {\n")
    \o Chars("                        try {\n")
    \o Chars("                            const height = Math.max(\n")
    \o Chars("                                document.body.scrollHeight,\n")
    \o Chars("                                document.body.offsetHeight,\n")
    \o Chars("                                document.documentElement.clientHeight,\n")
    \o Chars("                                document.documentElement.scrollHeight,\n")
    \o Chars("                                document.documentElement.offsetHeight\n")
    \o Chars("                            );\n")
    \o Chars("                            window.parent.postMessage({\n")
    \o Chars("                                type: 'plot:height',\n")
    \o Chars("                                height: height\n")
    \o Chars("                            }, '*');\n")
    \o Chars("                        } catch (e) {\n")
    \o Chars("                            // Silent fail for standalone use\n")
    \o Chars("                        }\n")
    \o Chars("                    }\n")
    \o Chars("                    \n")
    \o Chars("                    // Listen for pane resize messages from parent\n")
    \o Chars("                    window.addEventListener('message', (event) => {\n")
    \o Chars("                        if (event.data && event.data.type === 'pane:resized') {\n")
    \o Chars("                            const plotDiv = document.querySelector('.plotly-graph-div');\n")
    \o Chars("                            if (plotDiv) {\n")
    \o Chars("                                clearTimeout(plotDiv._resizeTimeout);\n")
    \o Chars("                                plotDiv._resizeTimeout = setTimeout(() => {\n")
    \o Chars("                                    try {\n")
    \o Chars("                                        window.Plotly.Plots.resize(plotDiv);\n")
    \o Chars("                                        postHeightToParent();\n")
    \o Chars("                                    } catch (e) {\n")
    \o Chars("                                        console.warn('Error resizing plot:', e);\n")
    \o Chars("                                    }\n")
    \o Chars("                                }, 100);\n")
    \o Chars("                            }\n")
    \o Chars("                        }\n")
    \o Chars("                    });")

\* lines 80-93
css_block ==
    Chars("  <style>\n")
    \o Chars("    /* Responsive styling for standalone plots */\n")
    \o Chars("    html, body {\n")
    \o Chars("      margin: 0;\n")
    \o Chars("      padding: 0;\n")
    \o Chars("      width: 100%;\n")
    \o Chars("      height: 100%;\n")
    \o Chars("      font-family: Arial, sans-serif;\n")
    \o Chars("    }\n")
    \o Chars("    .plotly-graph-div {\n")
    \o Chars("      width: 100% !important;\n")
    \o Chars("      height: 100vh !important;\n")
    \o Chars("    }\n")
    \o Chars("  </style>")

\* the texts the tool looks for
resize_call == Chars("window.Plotly.Plots.resize(plotDiv);")

observer_comment == Chars("// Set up resize observer")

plot_div_line == Chars("const plotDiv = document.querySelector('.plotly-graph-div');")

css_marker == Chars("Responsive styling for standalone plots")

head_with_meta == Chars("<head><meta charset=\"utf-8\" /></head>")

responsive_config == Chars("\"responsive\": true")

\* lines 49-76: add_postmessage_to_existing_responsive_code, given the
\* content after the first substitution
add_listener(content) ==
    IF contains(content, observer_comment)
    THEN str_replace(content, observer_comment,
                     post_message_script \o Chars("\n                    \n                    ")
                     \o observer_comment)
    ELSE str_replace(content, plot_div_line, plot_div_line \o post_message_script)

\* lines 49-76
add_postmessage_to_existing_responsive_code(content) ==
    add_listener(str_replace(content, resize_call,
                             resize_call
                             \o Chars("\n                                postHeightToParent();")))

\* lines 78-107
add_responsive_css(content) ==
    IF contains(content, css_marker) THEN content
    ELSE IF contains(content, head_with_meta)
    THEN str_replace(content, head_with_meta,
                     Chars("<head>\n  <meta charset=\"utf-8\" />\n") \o css_block
                     \o Chars("\n</head>"))
    ELSE IF contains(content, Chars("<head>")) /\ contains(content, Chars("</head>"))
    THEN str_replace(content, Chars("<head>"), Chars("<head>\n") \o css_block)
    ELSE content

\* line 139: the index of the parenthesis that ends a match of
\* (Plotly\.newPlot\([^)]+\))\s*\) that starts at index k, or -1
newplot_match_end(t, k) ==
    IF /\ Slice(t, k, k + Len(CallName) + 1) = CallName \o <<"(">>
       /\ find(t, ")", k + Len(CallName) + 1) > k + Len(CallName) + 1
       /\ CharAt(t, skip_whitespace(t, find(t, ")", k + Len(CallName) + 1) + 1)) = ")"
    THEN skip_whitespace(t, find(t, ")", k + Len(CallName) + 1) + 1)
    ELSE -1

\* the index of the leftmost match from index from on, or -1
newplot_match(t, from) ==
    LET hits == {k \in from..(Len(t) - 1) : newplot_match_end(t, k) # -1}
    IN  IF hits = {} THEN -1 ELSE CHOOSE k \in hits : \A k2 \in hits : k <= k2

\* lines 138-142: the substitution, from index from on
RECURSIVE sub_newplot(_, _)
sub_newplot(t, from) ==
    IF newplot_match(t, from) = -1 THEN Slice(t, from, Len(t))
    ELSE Slice(t, from, find(t, ")", newplot_match(t, from) + Len(CallName) + 1) + 1)
         \o Chars(", {\"responsive\": true})")
         \o sub_newplot(t, newplot_match_end(t, newplot_match(t, from)) + 1)

\* lines 130-142: step 4
ensure_responsive_config(content) ==
    IF contains(content, responsive_config) THEN content ELSE sub_newplot(content, 0)

\* mutant of has_responsive_js: every file passes
has_responsive_js_always(content) == TRUE

\* line 119
has_responsive_js(content) ==
    \/ contains(content, Chars("Make plot responsive after creation"))
    \/ contains(content, Chars("ResizeObserver"))

\* lines 123-124: step 3
with_postmessage(content) ==
    IF contains(content, Chars("postHeightToParent")) THEN content
    ELSE add_postmessage_to_existing_responsive_code(content)

\* lines 144-147: the end of process_file_safely
process_end(fs, path, original_content, content) ==
    IF content # original_content
    THEN [result |-> Return(TRUE), files |-> [fs EXCEPT ![path] = Some(content)], wrote |-> TRUE]
    ELSE [result |-> Return(FALSE), files |-> fs, wrote |-> FALSE]

\* lines 116-147, given the content after step 1
process_content(fs, path, original_content, content) ==
    IF ~has_responsive_js(content)
    THEN [result |-> Return(FALSE), files |-> fs, wrote |-> FALSE]
    ELSE process_end(fs, path, original_content,
                     ensure_responsive_config(with_postmessage(content)))

\* lines 109-151: process_file_safely(file_path) on the files fs: what it
\* returns, the files after it and whether it wrote; a file that is not
\* there makes read_text raise
process_file_safely(fs, path) ==
    IF fs[path] = None THEN [result |-> Return(FALSE), files |-> fs, wrote |-> FALSE]
    ELSE process_content(fs, path, fs[path][1], add_responsive_css(fs[path][1]))

\* the pieces of a plot file: a head, a mark of responsive code, the
\* comment, the declaration, the resize call, the function, the call
PageHeads ==
    {<<>>, head_with_meta, Chars("<head></head>"), Chars("<head>"),
     Chars("<head>/* Responsive styling for standalone plots */</head>")}

PageMarks == {<<>>, Chars("new ResizeObserver();"), Chars("// Make plot responsive after creation")}

PageCalls ==
    {<<>>, Chars("Plotly.newPlot(x, [], {})"), Chars("f(Plotly.newPlot(x, [], {}) )"),
     Chars("f(Plotly.newPlot(x, [], {}, {\"responsive\": true}))")}

Pages ==
    [head : PageHeads, mark : PageMarks, comment : {<<>>, observer_comment},
     line : {<<>>, plot_div_line}, resize : {<<>>, resize_call},
     post : {<<>>, Chars("postHeightToParent();")}, call : PageCalls]

PageText(page) ==
    page.head \o page.mark \o page.line \o page.comment \o page.resize \o page.post
    \o page.call

InitProcess ==
    /\ mode = "process"
    /\ pc = "ready"
    /\ files \in {[p \in {Target} |-> Some(PageText(page))] : page \in Pages}
                 \cup {[p \in {Target} |-> None]}
    /\ parts = NoParts
    /\ script_text = <<>>
    /\ locate_result = NoResult
    /\ cache = <<>>
    /\ history = <<>>
    /\ called = NoCall
    /\ call_result = NoResult
    /\ load_path = ""
    /\ load_read = None
    /\ load_result = NoResult
    /\ s = <<>>
    /\ open_char = ""
    /\ close_char = ""
    /\ start_index = 0
    /\ scan_result = NoResult

\* the state after process_file_safely ended as o tells; history keeps the
\* content the file had, called.loads whether the file was written
Processed(o) ==
    /\ called' = [op |-> "process_file_safely", arg |-> Target,
                  loads |-> IF o.wrote THEN <<"write_text">> ELSE <<>>]
    /\ call_result' = o.result
    /\ files' = o.files
    /\ history' = files[Target]

\* a call process_file_safely(file_path)
ProcessFile ==
    /\ mode = "process"
    /\ pc = "ready"
    /\ Processed(process_file_safely(files, Target))
    /\ pc' = "done"
    /\ UNCHANGED <<mode, cache, load_path, load_read, load_result, scan_vars, locate_vars>>

NextProcess == ProcessFile

SpecProcess == InitProcess /\ [][NextProcess]_vars

----------------------------------------------------------------------------
(* Claims about the resolver. *)

\* the resolver was called
ResolveRan == mode = "resolve" /\ pc = "done"

\* the directories in the order of the design: docs/plots, the root, web,
\* public, docs, static, site, the directory of the module
SearchOrder ==
    << <<"docs", "plots">>, <<>>, <<"web">>, <<"public">>, <<"docs">>,
       <<"static">>, <<"site">>, <<"python">> >>

\* the existing files with the name filename, anywhere under the root
Named(fs, filename) ==
    {path \in TreePaths :
        /\ path.name = filename
        /\ PathString(path) \in DOMAIN fs
        /\ fs[PathString(path)] # None}

\* C16: the resolver returns the file of that name in the first directory of
\* the search order that holds one; when none of them does, a file of that
\* name from elsewhere under the root; it raises FileNotFoundError exactly
\* when no file of that name exists under the root.
C16_SearchOrder ==
    ResolveRan =>
        LET named == Named(files, called.arg)
            hits == {n \in 1..Len(SearchOrder) :
                        [dir |-> SearchOrder[n], name |-> called.arg] \in named}
        IN  /\ call_result.exc \in {"", "FileNotFoundError"}
            /\ hits # {} =>
                  call_result = Return([dir |-> SearchOrder[Min(hits)], name |-> called.arg])
            /\ (hits = {} /\ named # {}) =>
                  call_result.exc = "" /\ call_result.value \in named
            /\ (call_result.exc = "FileNotFoundError") <=> (named = {})

----------------------------------------------------------------------------
(* Claims about the functions of the catalog. *)

\* the paths at which the file system holds a file for the n-th entry
EntryPaths(n) ==
    {path \in CatalogPaths :
        path.name = PLOT_ENTRIES[n].filename /\ files[PathStrings[path]] # None}

\* the path docs/plots/<filename> of the n-th entry, written out
DefaultPath(n) == "docs/plots/" \o NameString(PLOT_ENTRIES[n].filename)

\* the records the cache holds for the path written as q
CachedRecords(q) == {cache[k].result : k \in {j \in 1..Len(cache) : cache[j].key = q}}

\* the n-th entry has a file, and the file loads or was loaded before: its
\* document parses or the cache holds a record for its path
EntryLoads(n) ==
    \E path \in EntryPaths(n) :
        \/ files[PathStrings[path]] # Some(DocBadSeries)
        \/ CachedRecords(PathStrings[path]) # {}

\* the item of the n-th entry when the entry fails
FallbackOf(n) ==
    [key |-> PLOT_ENTRIES[n].key,
     title |-> [type |-> "str", items |-> PLOT_ENTRIES[n].fallback_title],
     filename |-> DefaultPath(n)]

ListRan == mode = "catalog" /\ called.op = "list_plots"

\* C17: list_plots raises nothing and returns one item per entry of the
\* catalog, in the order of the catalog, each with the key of its entry; an
\* entry that has no file or whose file does not load is reported with its
\* fallback title and the path docs/plots/<filename>, and every other entry
\* is reported with the path of its file.
C17_ListNeverRaises ==
    ListRan =>
        /\ call_result.exc = ""
        /\ Len(call_result.value) = Len(PLOT_ENTRIES)
        /\ \A n \in 1..Len(PLOT_ENTRIES) :
              /\ call_result.value[n].key = PLOT_ENTRIES[n].key
              /\ ~EntryLoads(n) => call_result.value[n] = FallbackOf(n)
              /\ EntryLoads(n) =>
                    \E path \in EntryPaths(n) :
                        call_result.value[n].filename = PathStrings[path]

\* the file of the first entry does not load and the file of the fourth,
\* found outside docs/plots, does
C17_Witness ==
    /\ ListRan
    /\ files[PathStrings[[dir |-> plots_dir, name |-> PLOT_ENTRIES[1].filename]]]
          = Some(DocBadSeries)
    /\ call_result.value[1] = FallbackOf(1)
    /\ call_result.value[4].filename = "data/NPI.html"
    /\ call_result.value[4].title = [type |-> "str", items |-> <<"U">>]
    /\ call_result.value[8] = FallbackOf(8)

\* the title the layout of a record holds: the text of a title object, or a
\* title string without the whitespace around it; None when it holds no
\* title or an empty one
HarvestedTitle(layout) ==
    LET holds(d, key) == \E k \in 1..Len(d.items) : d.items[k].key = key
        of(d, key) == d.items[CHOOSE k \in 1..Len(d.items) : d.items[k].key = key].value
        title == <<"t", "i", "t", "l", "e">>
        text == <<"t", "e", "x", "t">>
    IN  IF ~holds(layout, title) THEN PyNone
        ELSE IF of(layout, title).type = "str"
        THEN IF strip(of(layout, title).items) = <<>> THEN PyNone
             ELSE [type |-> "str", items |-> strip(of(layout, title).items)]
        ELSE IF of(layout, title).type = "dict" /\ holds(of(layout, title), text)
        THEN IF of(of(layout, title), text).items = <<>> THEN PyNone
             ELSE of(of(layout, title), text)
        ELSE PyNone

\* the record list_plots loaded for the n-th item it returned
ListedRecord(n) == CHOOSE r \in CachedRecords(call_result.value[n].filename) : TRUE

\* C18: for an entry that loads, the title list_plots reports is the title
\* its layout holds when it holds one that is not empty, and the fallback
\* title of the entry otherwise; it is a string and it is not empty.
C18_TitleIsString ==
    ListRan =>
        \A n \in 1..Len(PLOT_ENTRIES) :
            EntryLoads(n) =>
                /\ call_result.value[n].title =
                      IF HarvestedTitle(ListedRecord(n).layout) = PyNone
                      THEN [type |-> "str", items |-> PLOT_ENTRIES[n].fallback_title]
                      ELSE HarvestedTitle(ListedRecord(n).layout)
                /\ call_result.value[n].title.type = "str"
                /\ call_result.value[n].title.items # <<>>

GetOneRan == mode = "catalog" /\ called.op = "get_figure_json"

\* the entries of the catalog with the key
EntriesOf(key) == {n \in 1..Len(PLOT_ENTRIES) : PLOT_ENTRIES[n].key = key}

\* what load_plot_json_from_html gives for the path written as q, now: the
\* record the cache holds for it, or what reading the file gives
LoadGives(q) ==
    IF CachedRecords(q) # {}
    THEN {Return(r) : r \in CachedRecords(q)}
    ELSE {load_plot_json_from_html(q, files)}

\* C19: get_figure_json raises KeyError for a key that is not in the catalog
\* and loads no file; for a key of the catalog whose file is nowhere it
\* raises FileNotFoundError and loads no file; for a key of the catalog whose
\* file is found it loads that file and ends as the load ends, with its
\* record or with its exception.
C19_GetOne ==
    GetOneRan =>
        /\ EntriesOf(called.arg) = {} =>
              /\ call_result = Raise("KeyError", "Unknown plot key: " \o called.arg)
              /\ called.loads = <<>>
        /\ \A n \in EntriesOf(called.arg) :
              /\ EntryPaths(n) = {} =>
                    /\ call_result.exc = "FileNotFoundError"
                    /\ called.loads = <<>>
              /\ EntryPaths(n) # {} =>
                    \E path \in EntryPaths(n) :
                        /\ called.loads = <<PathStrings[path]>>
                        /\ call_result \in LoadGives(PathStrings[path])

\* the file of npi is found outside docs/plots and does not parse: the
\* JSONDecodeError of the load is what the call ends with
C19_Witness ==
    /\ GetOneRan
    /\ called.arg = "npi"
    /\ called.loads = <<"data/NPI.html">>
    /\ call_result.exc = "JSONDecodeError"

GetAllRan == mode = "catalog" /\ called.op = "get_all_figures_json"

\* C20: get_all_figures_json raises nothing and returns one pair per key of
\* the catalog; the value of a key is the record get_figure_json returns for
\* it, and when get_figure_json raises, the message of the exception with
\* the path docs/plots/<filename>.
C20_GetAllNeverRaises ==
    GetAllRan =>
        /\ call_result.exc = ""
        /\ Len(call_result.value) = Len(PLOT_ENTRIES)
        /\ \A n \in 1..Len(PLOT_ENTRIES) :
              /\ call_result.value[n].key = PLOT_ENTRIES[n].key
              /\ \E o \in get_figure_json(files, cache, PLOT_ENTRIES[n].key) :
                    call_result.value[n].value =
                        IF o.result.exc = "" THEN o.result.value
                        ELSE [error |-> o.result.msg, filename |-> DefaultPath(n)]

\* the first entry has its record, the fourth the error of a file that does
\* not parse, the eighth the error of a file that is nowhere
C20_Witness ==
    /\ GetAllRan
    /\ call_result.value[1].value = [data |-> JValue("list", <<>>),
                                     layout |-> JValue("dict", <<>>)]
    /\ files["docs/plots/NPI.html"] = Some(DocBadSeries)
    /\ call_result.value[4].value = [error |-> "", filename |-> "docs/plots/NPI.html"]
    /\ call_result.value[8].value =
          [error |-> "Could not find plot HTML file: Prevalence.html"
                        \o " (searched docs/plots and repo root)",
           filename |-> DefaultPath(8)]

----------------------------------------------------------------------------
(* Claims about the call's closing parenthesis and the order of the spans. *)

\* the call's opening parenthesis is found and nothing closes it
NeverClosed ==
    /\ re_search_end(script_text) # -1
    /\ MatchingClose(script_text, "(", ")", re_search_end(script_text) - 1, 0)
          = Len(script_text)

\* C24, as claimed: when nothing closes the opening parenthesis of the first
\* call, the locator raises UnbalancedSpan and returns nothing.
C24_NeverClosedClaimed ==
    (LocateRan /\ NeverClosed) =>
        /\ locate_result.exc = "ValueError"
        /\ locate_result.msg = UnbalancedSpan
        /\ locate_result.value = <<>>

\* C24, amended: when nothing closes the opening parenthesis of the first
\* call, the locator raises and returns nothing; it raises UnbalancedSpan
\* when it found the first comma, a series array and a layout object, and
\* otherwise the error of the step that found none or UnbalancedSpan.
C24_NeverClosed ==
    (LocateRan /\ NeverClosed) =>
        /\ locate_result.exc = "ValueError"
        /\ locate_result.value = <<>>
        /\ locate_result.msg \in {MalformedCall, NoDataArray, NoLayoutObject, UnbalancedSpan}
        /\ locate_result.locals.first_comma = -1 <=> locate_result.msg = MalformedCall
        /\ (locate_result.locals.first_comma # -1 /\ locate_result.locals.data_start = -1)
              <=> locate_result.msg = NoDataArray
        /\ (locate_result.locals.after_data # -1 /\ locate_result.locals.layout_start = -1)
              <=> locate_result.msg = NoLayoutObject
        /\ locate_result.locals.after_layout # -1 => locate_result.msg = UnbalancedSpan

\* a call with a series array and a layout object, both balanced, that no
\* parenthesis closes
C24_Witness ==
    /\ LocateRan
    /\ NeverClosed
    /\ ThreeArgumentCall([parts EXCEPT !.close = <<")">>])
    /\ parts.close = <<>>
    /\ parts.post = <<";", "{", "}">>
    /\ locate_result.locals.after_layout # -1
    /\ locate_result.msg = UnbalancedSpan
    /\ locate_result.value = <<>>

\* the index of the parenthesis that closes the call's opening one
CallClose == MatchingClose(script_text, "(", ")", locate_result.locals.idx - 1, 0)

\* C28: when the locator returns, the series span starts after the first
\* comma, the layout span starts at or after the end of the series span, the
\* options span starts at or after the end of the layout span, and the
\* three spans end before the parenthesis that closes the call.
C28_SpansInsideCall ==
    LocateReturned =>
        LET l == locate_result.locals
        IN  /\ l.data_start > l.first_comma
            /\ l.layout_start >= l.after_data
            /\ locate_result.value[4] # None => l.brace_pos >= l.after_layout
            /\ l.after_data <= CallClose
            /\ l.after_layout <= CallClose
            /\ locate_result.value[4] # None =>
                  l.brace_pos + Len(locate_result.value[4][1]) <= CallClose

----------------------------------------------------------------------------
(* The round trip. *)

\* the document written from a series and a layout was loaded
RoundLoaded == mode = "load" /\ called.op = "round_trip" /\ load_path = Target

\* C21: the document callName("id", <S serialised>, <L serialised>) of a
\* JSON array S and a JSON object L loads to the record whose data is S and
\* whose layout is L, and that has no config.
C21_RoundTrip ==
    RoundLoaded =>
        load_result = Return([data |-> called.arg[1], layout |-> called.arg[2]])

\* a series whose string holds a double quote and a closing parenthesis and
\* a layout whose key is a backslash
C21_Witness ==
    /\ RoundLoaded
    /\ Len(called.arg[1].items) = 3
    /\ called.arg[1].items[1] = JValue("str", <<DQ, ")">>)
    /\ Len(called.arg[2].items) = 1
    /\ called.arg[2].items[1].key = <<BS>>
    /\ load_result.exc = ""
    /\ load_result.value.data.items[3].items[1].value = JValue("str", <<DQ, ")">>)

----------------------------------------------------------------------------
(* The race of two callers. *)

\* both callers have their result
RaceDone == mode = "race" /\ \A c \in Callers : pc[c] = "done"

\* C25: when two callers load the same path that the cache does not hold,
\* whatever the order of their steps, both end with the same record or the
\* same exception, the one a single load gives; the cache then holds one
\* record for the path when they returned and none when they raised, and is
\* otherwise as a single load leaves it; the function ran once or twice.
C25_HarmlessRace ==
    RaceDone =>
        /\ call_result[1] = call_result[2]
        /\ call_result[1] = load_plot_json_from_html(Target, files)
        /\ Len(called.loads) \in {1, 2}
        /\ cache = IF call_result[1].exc = "" THEN cache_store(history, Target, call_result[1].value)
                   ELSE history
        /\ Cardinality(cache_hits(cache, Target)) = IF call_result[1].exc = "" THEN 1 ELSE 0

\* both callers missed and ran the function on a full cache, and returned
C25_Witness ==
    /\ RaceDone
    /\ called.loads = <<2, 1>>
    /\ Len(history) = maxsize
    /\ call_result[1].exc = ""
    /\ files[Target] = Some(DocFour)
    /\ Len(cache) = maxsize

----------------------------------------------------------------------------
(* Claims about the tool that rebuilds the plot files. *)

\* extract_plot_components was called on the content of the file
ExtractRan == mode = "rebuild" /\ pc = "done" /\ called.op = "extract_plot_components"

\* the index of the parenthesis that opens the first Plotly.newPlot( call of
\* t, or -1
FirstCallOpen(t) ==
    IF str_find(t, CallName \o <<"(">>, 0) = -1 THEN -1
    ELSE str_find(t, CallName \o <<"(">>, 0) + Len(CallName)

\* the index of the parenthesis that matches the one at index open with
\* string literals read as literals, Len(t) when there is none
FirstCallClose(t, open) == MatchingClose(t, "(", ")", open, 0)

\* the indices of the top-level commas of the call open..close: commas that
\* are in no string literal and in no bracket or brace pair
CallCommas(t, open, close) ==
    {k \in (open + 1)..(close - 1) :
        /\ At(t, k) = ","
        /\ ~InLiteral(t, open + 1, k)
        /\ RefDepth(t, "[", "]", open + 1, k) = 0
        /\ RefDepth(t, "{", "}", open + 1, k) = 0}

\* the index of the i-th top-level comma; open for i = 0 and close after the
\* last
ArgumentBound(t, open, close, i) ==
    IF i = 0 THEN open
    ELSE IF i > Cardinality(CallCommas(t, open, close)) THEN close
    ELSE CHOOSE k \in CallCommas(t, open, close) :
            Cardinality({k2 \in CallCommas(t, open, close) : k2 < k}) = i - 1

\* the i-th top-level argument of the call, without the whitespace around it
TopLevelArgument(t, open, close, i) ==
    strip(Slice(t, ArgumentBound(t, open, close, i - 1) + 1,
                ArgumentBound(t, open, close, i)))

\* the number of top-level arguments of the call; nothing after the last
\* comma is no argument
ArgumentCount(t, open, close) ==
    IF TopLevelArgument(t, open, close, Cardinality(CallCommas(t, open, close)) + 1) = <<>>
    THEN Cardinality(CallCommas(t, open, close))
    ELSE Cardinality(CallCommas(t, open, close)) + 1

\* C27 holds of the result r of extract_plot_components on the text t
TopLevelArgumentsOf(t, r) ==
    IF \/ FirstCallOpen(t) = -1
       \/ FirstCallClose(t, FirstCallOpen(t)) = Len(t)
       \/ ArgumentCount(t, FirstCallOpen(t), FirstCallClose(t, FirstCallOpen(t))) < 3
    THEN r = None
    ELSE /\ r # None
         /\ r[1].plot_data
              = TopLevelArgument(t, FirstCallOpen(t), FirstCallClose(t, FirstCallOpen(t)), 2)
         /\ r[1].plot_layout
              = TopLevelArgument(t, FirstCallOpen(t), FirstCallClose(t, FirstCallOpen(t)), 3)

\* C27: extract_plot_components returns as plot_data and plot_layout the
\* second and third top-level arguments of the first Plotly.newPlot( call,
\* the call ending at the parenthesis that matches its opening one and a
\* top-level comma being one in no bracket or brace pair, also when string
\* literals in the arguments hold parentheses, brackets, braces or commas;
\* it returns None when there is no call, when the parentheses do not
\* balance and when the call has fewer than three top-level arguments.
C27_TopLevelArguments ==
    ExtractRan => TopLevelArgumentsOf(called.arg, call_result.value)

\* rebuild_html_file was called on the file; history holds the content the
\* file had
RebuildRan == mode = "rebuild" /\ pc = "done" /\ called.op = "rebuild_html_file"

\* the file holds a text with the three components in it
HoldsComponents(file, components) ==
    /\ file # None
    /\ str_find(file[1], components.plot_id, 0) # -1
    /\ str_find(file[1], components.plot_data, 0) # -1
    /\ str_find(file[1], components.plot_layout, 0) # -1

\* C22: rebuild_html_file, on a file from which extract_plot_components
\* obtains a plot id, data and layout, overwrites the file with the template
\* filled with the three components and returns True; it returns False and
\* leaves the file unchanged only when the components cannot be extracted or
\* the file cannot be read.
C22_RebuildFillsTemplate ==
    RebuildRan =>
        /\ (history # None /\ extract_plot_components(history[1]) # None) =>
              /\ call_result = Return(TRUE)
              /\ HoldsComponents(files[Target], extract_plot_components(history[1])[1])
        /\ call_result = Return(FALSE) =>
              /\ files[Target] = history
              /\ history = None \/ extract_plot_components(history[1]) = None

----------------------------------------------------------------------------
(* Claims about the generator of the manifest. *)

\* generate_manifest was called; history holds what the manifest file held
ManifestRan == mode = "manifest" /\ pc = "done" /\ called.op = "generate_manifest"

\* the .html files of the directory
HtmlFilesThere == {name \in HtmlNames : files[name] # None}

\* the names of HtmlNames in sorted order
NamesInOrder == <<"My_plot-1.html", "a b.html", "b.html", "x.html.html">>

\* the place of a name in that order
PlaceInOrder(name) == CHOOSE k \in 1..Len(NamesInOrder) : NamesInOrder[k] = name

\* the id a file name stands for: the name without '.html', spaces replaced
\* by hyphens, in lower case
IdOfName(name) ==
    IF name = "My_plot-1.html" THEN Chars("my_plot-1")
    ELSE IF name = "a b.html" THEN Chars("a-b")
    ELSE IF name = "b.html" THEN Chars("b")
    ELSE Chars("x")

\* the title derived from a file name
TitleOfName(name) ==
    IF name = "My_plot-1.html" THEN Chars("My Plot 1")
    ELSE IF name = "a b.html" THEN Chars("A B")
    ELSE IF name = "b.html" THEN Chars("B")
    ELSE Chars("X")

\* the title found in a document of ManifestDocs, <<>> when there is none:
\* the nested form before the plain one
TitleInDoc(doc) ==
    IF doc = Chars("{\"title\": {\"text\": \"N t\"}}") THEN Chars("N t")
    ELSE IF doc = Chars("\"title\":\"P\"") THEN Chars("P")
    ELSE IF doc = Chars("\"title\":\"P\",\"title\":{ \"text\":\"N\" }") THEN Chars("N")
    ELSE <<>>

\* the entry of the manifest for a file
EntryIsFor(entry, name) ==
    /\ entry.file = name
    /\ entry.id = IdOfName(name)
    /\ entry.title = IF TitleInDoc(files[name][1]) # <<>> THEN TitleInDoc(files[name][1])
                     ELSE TitleOfName(name)

\* the charts list one entry for each .html file there, in sorted order
ChartsAreFor(charts) ==
    /\ Len(charts) = Cardinality(HtmlFilesThere)
    /\ \A i \in 1..Len(charts) :
          /\ charts[i].file \in HtmlFilesThere
          /\ EntryIsFor(charts[i], charts[i].file)
          /\ \A j \in 1..(i - 1) : PlaceInOrder(charts[j].file) < PlaceInOrder(charts[i].file)

----------------------------------------------------------------------------
(* Claims about the tool that adds the height messages. *)

\* process_file_safely was called on the file; history holds the content the
\* file had, called.loads the writes
ProcessRan == mode = "process" /\ pc = "done" /\ called.op = "process_file_safely"

\* the content read holds neither mark of responsive code
NoMarkRead ==
    /\ history # None
    /\ ~contains(history[1], Chars("Make plot responsive after creation"))
    /\ ~contains(history[1], Chars("ResizeObserver"))

\* C26: process_file_safely writes the file only when the processed content
\* differs from the content read, and returns True exactly when it wrote; a
\* file whose content holds neither 'Make plot responsive after creation'
\* nor 'ResizeObserver' is left unchanged and False is returned, also when
\* the responsive CSS would have been added to it.
C26_WritesOnlyChanges ==
    ProcessRan =>
        /\ called.loads # <<>> => files[Target] # history
        /\ called.loads = <<>> => files[Target] = history
        /\ call_result = Return(called.loads # <<>>)
        /\ NoMarkRead => files[Target] = history /\ call_result = Return(FALSE)

\* a file with a head and no mark of responsive code: the CSS would have
\* been added, nothing was written
C26_Witness ==
    /\ ProcessRan
    /\ NoMarkRead
    /\ add_responsive_css(history[1]) # history[1]
    /\ called.loads = <<>>
    /\ call_result = Return(FALSE)

====
